---- MODULE Spec2Model ----
(***************************************************************************)
(* gtcli: the account store (src/src/account-storage.ts) and the OAuth2    *)
(* authorization flow (src/src/oauth-flow.ts) as state machines.           *)
(*                                                                         *)
(* JavaScript values are modelled as tagged trees: t is the value's kind   *)
(* and v its payload.  A JSON text is represented by the tree it parses    *)
(* to, so JSON.parse is "read the tree" and JSON.stringify is the          *)
(* conversion that drops undefined-valued properties.                      *)
(***************************************************************************)
EXTENDS Integers, Sequences, FiniteSets, TLC

\* ------------------------------------------------------------------------
\* Bounds of the model
\* ------------------------------------------------------------------------
MaxOps == 3          \* addAccount / deleteAccount calls per behaviour
MaxFileEntries == 2  \* entries of an accounts file the store did not write itself

\* ------------------------------------------------------------------------
\* JavaScript / JSON values
\* ------------------------------------------------------------------------
JUndef == [t |-> "undefined"]
JNull == [t |-> "null"]
JBool(b) == [t |-> "boolean", v |-> b]
JNum(n) == [t |-> "number", v |-> n]
JStr(s) == [t |-> "string", v |-> s]
JArr(s) == [t |-> "array", v |-> s]
JObj(f) == [t |-> "object", v |-> f]

\* typeof x
TypeOf(x) ==
    IF x.t \in {"null", "array", "object"} THEN "object" ELSE x.t

\* x[k]: reading a property of a value that is not undefined/null
Prop(x, k) ==
    IF x.t = "object" /\ k \in DOMAIN x.v THEN x.v[k] ELSE JUndef

\* Array.isArray(x)
IsArray(x) == x.t = "array"

\* JSON.stringify(x) followed by JSON.parse: properties whose value is
\* undefined are omitted, undefined array elements become null.
RECURSIVE Stringify(_)
Stringify(x) ==
    IF x.t = "object"
    THEN JObj([k \in {j \in DOMAIN x.v : x.v[j].t # "undefined"} |-> Stringify(x.v[k])])
    ELSE IF x.t = "array"
    THEN JArr([i \in 1..Len(x.v) |->
                 IF x.v[i].t = "undefined" THEN JNull ELSE Stringify(x.v[i])])
    ELSE x

\* Deep equality of two values that treats a property holding undefined as
\* a missing one (vitest's toEqual, and what any property read observes).
DeepEqual(a, b) == Stringify(a) = Stringify(b)

\* ------------------------------------------------------------------------
\* Files
\* ------------------------------------------------------------------------
NoFile == [exists |-> FALSE, parses |-> FALSE, json |-> JUndef]
GarbageFile == [exists |-> TRUE, parses |-> FALSE, json |-> JUndef]
TextFile(j) == [exists |-> TRUE, parses |-> TRUE, json |-> j]

\* JSON.parse(fs.readFileSync(file, "utf8"))
ParseFile(f) ==
    IF f.parses THEN [threw |-> FALSE, data |-> f.json]
    ELSE [threw |-> TRUE, data |-> JUndef]

\* ------------------------------------------------------------------------
\* Map<string, Account>: insertion-ordered sequence of [key, value] entries
\* ------------------------------------------------------------------------
MapHas(m, k) == \E i \in 1..Len(m) : m[i].key = k

MapIndex(m, k) == CHOOSE i \in 1..Len(m) : m[i].key = k

MapGet(m, k) == IF MapHas(m, k) THEN m[MapIndex(m, k)].value ELSE JUndef

MapSetAppendAlways(m, k, val) == Append(m, [key |-> k, value |-> val])

MapSetKeepExisting(m, k, val) ==
    IF \E i \in 1..Len(m) : m[i].key = k THEN m
    ELSE Append(m, [key |-> k, value |-> val])

MapSet(m, k, val) ==
    IF MapHas(m, k)
    THEN [m EXCEPT ![MapIndex(m, k)] = [key |-> k, value |-> val]]
    ELSE Append(m, [key |-> k, value |-> val])

SelectNotKey(m, k) ==
    LET Keep(e) == e.key # k IN SelectSeq(m, Keep)

MapDeleteClear(m, k) == <<>>

MapDelete(m, k) == SelectNotKey(m, k)

MapValues(m) == [i \in 1..Len(m) |-> m[i].value]

\* ------------------------------------------------------------------------
\* State
\* ------------------------------------------------------------------------
Stores == {1, 2}     \* AccountStorage instances over the same directory

VARIABLES
    configDir,        \* "absent" | "present" | "blocked" (mkdir fails)
    accountsFile,     \* <configDir>/accounts.json
    credentialsFile,  \* <configDir>/credentials.json
    stores,           \* per instance: [state, accounts]
    last,             \* the last store call and what it returned
    wrote,            \* instance slots that have written accounts.json
    nops              \* number of store operations so far

storeVars == <<configDir, accountsFile, credentialsFile, stores, last, wrote, nops>>

VARIABLES
    flow,              \* per run: the state of authorize()
    portBusyElsewhere  \* another program is listening on the redirect port

flowVars == <<flow, portBusyElsewhere>>

VARIABLES
    credsSet,          \* the pair given to the most recent setCredentials call
    extract,           \* a redirect string and what extractCodeFromUrl made of it
    cli,               \* the gtcli process running `accounts add <email>`
    service            \* a TaskService over the store instance ServiceStore

appVars == <<credsSet, extract, cli, service>>

vars == <<storeVars, flowVars, appVars>>

NoCall == [op |-> "none", store |-> 0, arg |-> JUndef, result |-> JUndef,
           threw |-> FALSE, had |-> FALSE, sizeBefore |-> 0]

Call(o, i, a, r, th, h, n) ==
    [op |-> o, store |-> i, arg |-> a, result |-> r,
     threw |-> th, had |-> h, sizeBefore |-> n]

\* ------------------------------------------------------------------------
\* AccountStorage
\* ------------------------------------------------------------------------
isValidAccount(account) ==
    IF TypeOf(account) # "object" \/ account.t = "null" THEN FALSE
    ELSE IF TypeOf(Prop(account, "email")) # "string" THEN FALSE
    ELSE IF TypeOf(Prop(account, "oauth2")) # "object"
            \/ Prop(account, "oauth2").t = "null" THEN FALSE
    ELSE LET oauth2 == Prop(account, "oauth2") IN
         /\ TypeOf(Prop(oauth2, "clientId")) = "string"
         /\ TypeOf(Prop(oauth2, "clientSecret")) = "string"
         /\ TypeOf(Prop(oauth2, "refreshToken")) = "string"

\* the for-loop of loadAccounts over data[i..]
RECURSIVE LoadEntries(_, _, _)
LoadEntries(data, i, m) ==
    IF i > Len(data) THEN m
    ELSE LoadEntries(data, i + 1,
                     IF isValidAccount(data[i])
                     THEN MapSet(m, Prop(data[i], "email").v, data[i])
                     ELSE m)

loadAccountsNoCatch(file, m) ==
    IF file.exists
    THEN LET p == ParseFile(file) IN
         IF p.threw THEN [threw |-> TRUE, accounts |-> m]
         ELSE IF IsArray(p.data)
         THEN [threw |-> FALSE, accounts |-> LoadEntries(p.data.v, 1, m)]
         ELSE [threw |-> FALSE, accounts |-> m]
    ELSE [threw |-> FALSE, accounts |-> m]

loadAccounts(file, m) ==
    IF file.exists
    THEN LET p == ParseFile(file) IN
         IF p.threw THEN [threw |-> FALSE, accounts |-> m]
         ELSE IF IsArray(p.data)
         THEN [threw |-> FALSE, accounts |-> LoadEntries(p.data.v, 1, m)]
         ELSE [threw |-> FALSE, accounts |-> m]
    ELSE [threw |-> FALSE, accounts |-> m]

\* JSON.stringify of the Map itself instead of its values
saveAccountsStringifyMap(m) == TextFile(JObj(<<>>))

\* the file contents saveAccounts writes for the collection m
saveAccounts(m) == TextFile(Stringify(JArr(MapValues(m))))

getAccount(m, email) == MapGet(m, email)

getAllAccounts(m) == MapValues(m)

hasAccount(m, email) == MapHas(m, email)

\* ensureConfigDir: mkdirSync throws when the directory cannot be created
ensureConfigDir(dir) ==
    IF dir = "present" THEN [threw |-> FALSE, dir |-> "present"]
    ELSE IF dir = "absent" THEN [threw |-> FALSE, dir |-> "present"]
    ELSE [threw |-> TRUE, dir |-> dir]

ConstructRewritingFile(i) ==
    /\ stores[i].state = "none"
    /\ LET d == ensureConfigDir(configDir) IN
       IF d.threw
       THEN /\ stores' = [stores EXCEPT ![i] = [state |-> "failed", accounts |-> <<>>]]
            /\ last' = Call("construct", i, JUndef, JUndef, TRUE, FALSE, 0)
            /\ UNCHANGED <<configDir, accountsFile>>
       ELSE LET l == loadAccounts(accountsFile, <<>>) IN
            /\ configDir' = d.dir
            /\ accountsFile' = saveAccounts(l.accounts)
            /\ stores' = [stores EXCEPT ![i] =
                            [state |-> IF l.threw THEN "failed" ELSE "open",
                             accounts |-> IF l.threw THEN <<>> ELSE l.accounts]]
            /\ last' = Call("construct", i, JUndef, JUndef, l.threw, FALSE, 0)
    /\ UNCHANGED <<credentialsFile, wrote, nops>>
    /\ UNCHANGED flowVars
    /\ UNCHANGED appVars

\* new AccountStorage(configDir)
Construct(i) ==
    /\ stores[i].state = "none"
    /\ LET d == ensureConfigDir(configDir) IN
       IF d.threw
       THEN /\ stores' = [stores EXCEPT ![i] = [state |-> "failed", accounts |-> <<>>]]
            /\ last' = Call("construct", i, JUndef, JUndef, TRUE, FALSE, 0)
            /\ UNCHANGED configDir
       ELSE LET l == loadAccounts(accountsFile, <<>>) IN
            /\ configDir' = d.dir
            /\ stores' = [stores EXCEPT ![i] =
                            [state |-> IF l.threw THEN "failed" ELSE "open",
                             accounts |-> IF l.threw THEN <<>> ELSE l.accounts]]
            /\ last' = Call("construct", i, JUndef, JUndef, l.threw, FALSE, 0)
    /\ UNCHANGED <<accountsFile, credentialsFile, wrote, nops>>
    /\ UNCHANGED flowVars
    /\ UNCHANGED appVars

\* the instance goes out of scope (the process ends); a later Construct is a
\* fresh instance over the same directory
Discard(i) ==
    /\ stores[i].state # "none"
    /\ stores' = [stores EXCEPT ![i] = [state |-> "none", accounts |-> <<>>]]
    /\ last' = Call("discard", i, JUndef, JUndef, FALSE, FALSE, 0)
    /\ UNCHANGED <<configDir, accountsFile, credentialsFile, wrote, nops>>
    /\ UNCHANGED flowVars
    /\ UNCHANGED appVars

AddAccountMergingFile(i, account) ==
    /\ stores[i].state = "open"
    /\ nops < MaxOps
    /\ LET m == stores[i].accounts
           m2 == MapSet(m, Prop(account, "email").v, account) IN
       /\ stores' = [stores EXCEPT ![i].accounts = m2]
       /\ accountsFile' = saveAccounts(MapSet(loadAccounts(accountsFile, m).accounts,
                                              Prop(account, "email").v, account))
       /\ last' = Call("addAccount", i, account, JUndef, FALSE,
                       MapHas(m, Prop(account, "email").v), Len(m))
    /\ wrote' = wrote \cup {i}
    /\ nops' = nops + 1
    /\ UNCHANGED <<configDir, credentialsFile>>
    /\ UNCHANGED flowVars
    /\ UNCHANGED appVars

AddAccount(i, account) ==
    /\ stores[i].state = "open"
    /\ nops < MaxOps
    /\ LET m == stores[i].accounts
           m2 == MapSet(m, Prop(account, "email").v, account) IN
       /\ stores' = [stores EXCEPT ![i].accounts = m2]
       /\ accountsFile' = saveAccounts(m2)
       /\ last' = Call("addAccount", i, account, JUndef, FALSE,
                       MapHas(m, Prop(account, "email").v), Len(m))
    /\ wrote' = wrote \cup {i}
    /\ nops' = nops + 1
    /\ UNCHANGED <<configDir, credentialsFile>>
    /\ UNCHANGED flowVars
    /\ UNCHANGED appVars

DeleteAccount(i, email) ==
    /\ stores[i].state = "open"
    /\ nops < MaxOps
    /\ LET m == stores[i].accounts
           deleted == MapHas(m, email)
           m2 == MapDelete(m, email) IN
       /\ stores' = [stores EXCEPT ![i].accounts = m2]
       /\ IF deleted
          THEN /\ accountsFile' = saveAccounts(m2)
               /\ wrote' = wrote \cup {i}
          ELSE UNCHANGED <<accountsFile, wrote>>
       /\ last' = Call("deleteAccount", i, JStr(email), JBool(deleted), FALSE,
                       deleted, Len(m))
    /\ nops' = nops + 1
    /\ UNCHANGED <<configDir, credentialsFile>>
    /\ UNCHANGED flowVars
    /\ UNCHANGED appVars

\* the read operations: no state of the store or of the directory changes
GetAccount(i, email) ==
    /\ stores[i].state = "open"
    /\ last' = Call("getAccount", i, JStr(email),
                    getAccount(stores[i].accounts, email), FALSE,
                    MapHas(stores[i].accounts, email), Len(stores[i].accounts))
    /\ UNCHANGED <<configDir, accountsFile, credentialsFile, stores, wrote, nops>>
    /\ UNCHANGED flowVars
    /\ UNCHANGED appVars

HasAccount(i, email) ==
    /\ stores[i].state = "open"
    /\ last' = Call("hasAccount", i, JStr(email),
                    JBool(hasAccount(stores[i].accounts, email)), FALSE,
                    MapHas(stores[i].accounts, email), Len(stores[i].accounts))
    /\ UNCHANGED <<configDir, accountsFile, credentialsFile, stores, wrote, nops>>
    /\ UNCHANGED flowVars
    /\ UNCHANGED appVars

GetAllAccounts(i) ==
    /\ stores[i].state = "open"
    /\ last' = Call("getAllAccounts", i, JUndef,
                    JArr(getAllAccounts(stores[i].accounts)), FALSE,
                    FALSE, Len(stores[i].accounts))
    /\ UNCHANGED <<configDir, accountsFile, credentialsFile, stores, wrote, nops>>
    /\ UNCHANGED flowVars
    /\ UNCHANGED appVars

\* setCredentials before any pair was given
NoCreds == [set |-> FALSE, by |-> 0, clientId |-> JUndef, clientSecret |-> JUndef]

getCredentialsIdOnly(file) ==
    IF ~file.exists THEN [threw |-> FALSE, value |-> JNull]
    ELSE LET p == ParseFile(file) IN
         IF p.threw \/ p.data.t \in {"null", "undefined"}
         THEN [threw |-> FALSE, value |-> JNull]
         ELSE IF TypeOf(Prop(p.data, "clientId")) = "string"
         THEN [threw |-> FALSE, value |-> p.data]
         ELSE [threw |-> FALSE, value |-> JNull]

\* the file contents setCredentials writes
setCredentials(clientId, clientSecret) ==
    TextFile(Stringify(JObj([clientId |-> clientId, clientSecret |-> clientSecret])))

\* getCredentials(): reading a property of null throws inside the try block
getCredentials(file) ==
    IF ~file.exists THEN [threw |-> FALSE, value |-> JNull]
    ELSE LET p == ParseFile(file) IN
         IF p.threw \/ p.data.t \in {"null", "undefined"}
         THEN [threw |-> FALSE, value |-> JNull]
         ELSE IF /\ TypeOf(Prop(p.data, "clientId")) = "string"
                 /\ TypeOf(Prop(p.data, "clientSecret")) = "string"
         THEN [threw |-> FALSE, value |-> p.data]
         ELSE [threw |-> FALSE, value |-> JNull]

SetCredentials(i, clientId, clientSecret) ==
    /\ stores[i].state = "open"
    /\ nops < MaxOps
    /\ credentialsFile' = setCredentials(clientId, clientSecret)
    /\ credsSet' = [set |-> TRUE, by |-> i,
                    clientId |-> clientId, clientSecret |-> clientSecret]
    /\ last' = Call("setCredentials", i, JUndef, JUndef, FALSE,
                    credentialsFile.exists, 0)
    /\ nops' = nops + 1
    /\ UNCHANGED <<configDir, accountsFile, stores, wrote>>
    /\ UNCHANGED flowVars
    /\ UNCHANGED <<extract, cli, service>>

GetCredentials(i) ==
    /\ stores[i].state = "open"
    /\ LET g == getCredentials(credentialsFile) IN
       last' = Call("getCredentials", i, JUndef, g.value, g.threw,
                    credentialsFile.exists, 0)
    /\ UNCHANGED <<configDir, accountsFile, credentialsFile, stores, wrote, nops>>
    /\ UNCHANGED flowVars
    /\ UNCHANGED appVars

\* ------------------------------------------------------------------------
\* Inputs
\* ------------------------------------------------------------------------
OAuth2(rt) ==
    [clientId |-> JStr("c"), clientSecret |-> JStr("s"), refreshToken |-> JStr(rt)]

\* an Account object whose accessToken property holds at (possibly undefined)
Acct(e, rt, at) ==
    JObj([email |-> JStr(e),
          oauth2 |-> JObj([clientId |-> JStr("c"), clientSecret |-> JStr("s"),
                           refreshToken |-> JStr(rt), accessToken |-> at])])

\* an Account object without an accessToken property
AcctNoAT(e, rt) == JObj([email |-> JStr(e), oauth2 |-> JObj(OAuth2(rt))])

Emails == {"a@x.com", "b@x.com"}

\* the Account arguments of addAccount
AccountInputs ==
    {AcctNoAT("a@x.com", "r1"), Acct("a@x.com", "r2", JStr("at")),
     Acct("b@x.com", "r1", JUndef), AcctNoAT("b@x.com", "r2")}

ValidEntries ==
    {AcctNoAT("a@x.com", "r1"), AcctNoAT("a@x.com", "r2"),
     Acct("b@x.com", "r1", JStr("at"))}

\* entries with only empty strings where the Account type has a string
EmptyStringEntries ==
    {JObj([email |-> JStr(""),
           oauth2 |-> JObj([clientId |-> JStr(""), clientSecret |-> JStr(""),
                            refreshToken |-> JStr("")])]),
     AcctNoAT("b@x.com", "")}

MalformedEntries ==
    {JObj([email |-> JStr("invalid")]),
     JObj([invalid |-> JBool(TRUE)]),
     JObj([email |-> JNum(1), oauth2 |-> JObj(OAuth2("r1"))]),
     JObj([email |-> JStr("a@x.com"), oauth2 |-> JNull]),
     JObj([email |-> JStr("a@x.com"), oauth2 |-> JStr("r1")]),
     JObj([email |-> JStr("a@x.com"),
           oauth2 |-> JObj([clientId |-> JStr("c"), clientSecret |-> JStr("s")])]),
     JObj([email |-> JStr("a@x.com"),
           oauth2 |-> JObj([clientId |-> JNum(1), clientSecret |-> JStr("s"),
                            refreshToken |-> JStr("r1")])]),
     JNull, JStr("a@x.com"), JArr(<<>>)}

FileEntries == ValidEntries \cup EmptyStringEntries \cup MalformedEntries

SeqsUpTo(S, n) == UNION {[1..k -> S] : k \in 0..n}

\* accounts.json as some other program or an earlier version may have left it
ForeignAccountsFiles ==
    {NoFile, GarbageFile}
    \cup {TextFile(j) : j \in {JNull, JNum(1), JStr("x"), JObj(<<>>),
                               AcctNoAT("a@x.com", "r1")}}
    \cup {TextFile(JArr(s)) : s \in SeqsUpTo(FileEntries, MaxFileEntries)}
    \cup {TextFile(JArr(<<AcctNoAT("a@x.com", "r1"),
                          JObj([email |-> JStr("invalid")]),
                          JObj([invalid |-> JBool(TRUE)])>>))}

\* the accounts.json the store scenarios start from
StartAccountsFiles ==
    {NoFile, GarbageFile,
     TextFile(JArr(<<AcctNoAT("a@x.com", "r1"),
                     JObj([email |-> JStr("invalid")]),
                     JObj([invalid |-> JBool(TRUE)])>>)),
     TextFile(JArr(<<AcctNoAT("a@x.com", "r1"), Acct("b@x.com", "r1", JStr("at")),
                     AcctNoAT("a@x.com", "r2")>>)),
     TextFile(JArr(<<AcctNoAT("b@x.com", "")>>))}

NoStores == [i \in Stores |-> [state |-> "none", accounts |-> <<>>]]

\* client ids and secrets given to setCredentials
ClientIds == {JStr(""), JStr("my-client-id"), JStr("other-client-id")}

ClientSecrets == {JStr("my-client-secret"), JStr("other-client-secret")}

\* credentials.json as another program or an editor may have left it
ForeignCredentialsFiles ==
    {NoFile, GarbageFile, TextFile(JNull), TextFile(JNum(1)), TextFile(JArr(<<>>)),
     TextFile(JObj([clientId |-> JStr("old-client-id")])),
     TextFile(JObj([clientSecret |-> JStr("old-client-secret")])),
     TextFile(JObj([clientId |-> JNum(1), clientSecret |-> JStr("old-client-secret")])),
     TextFile(JObj([clientId |-> JStr("old-client-id"),
                    clientSecret |-> JStr("old-client-secret")])),
     TextFile(JObj([clientId |-> JStr("old-client-id"),
                    clientSecret |-> JStr("old-client-secret"),
                    project_id |-> JStr("old-project")]))}

\* ------------------------------------------------------------------------
\* Strings as sequences of characters, and extractCodeFromUrl
\* ------------------------------------------------------------------------
\* s.indexOf(c, i), 1-based; Len(s) + 1 when c does not occur from i on
IndexFrom(s, c, i) ==
    LET at == {j \in i..Len(s) : s[j] = c} IN
    IF at = {} THEN Len(s) + 1 ELSE CHOOSE j \in at : \A k \in at : j <= k

\* the text t occurs in s at position p
OccursAt(s, t, p) == p + Len(t) - 1 <= Len(s) /\ SubSeq(s, p, p + Len(t) - 1) = t

\* s.includes(t)
Includes(s, t) == \E p \in 1..Len(s) : OccursAt(s, t, p)

\* s.split(c)
RECURSIVE Split(_, _)
Split(s, c) ==
    LET j == IndexFrom(s, c, 1) IN
    IF j > Len(s) THEN <<s>>
    ELSE <<SubSeq(s, 1, j - 1)>> \o Split(SubSeq(s, j + 1, Len(s)), c)

\* the percent escapes that occur in the redirect strings considered
Escapes ==
    << [hex |-> <<"2", "F">>, char |-> "/"],
       [hex |-> <<"2", "6">>, char |-> "&"] >>

\* percent-decoding from position i on: a "%" that starts no escape is kept
\* and reported as malformed
RECURSIVE PercentDecode(_, _)
PercentDecode(s, i) ==
    LET known == IF s[i] = "%" /\ i + 2 <= Len(s)
                 THEN {e \in 1..Len(Escapes) : Escapes[e].hex = <<s[i + 1], s[i + 2]>>}
                 ELSE {}
    IN  IF i > Len(s) THEN [malformed |-> FALSE, text |-> <<>>]
        ELSE IF known # {}
        THEN LET rest == PercentDecode(s, i + 3) IN
             [rest EXCEPT !.text = <<Escapes[CHOOSE e \in known : TRUE].char>> \o @]
        ELSE LET rest == PercentDecode(s, i + 1) IN
             [malformed |-> rest.malformed \/ s[i] = "%", text |-> <<s[i]>> \o rest.text]

\* decodeURIComponent(s): throws URIError on a malformed escape
decodeURIComponent(s) ==
    LET d == PercentDecode(s, 1) IN
    IF d.malformed THEN [threw |-> TRUE, text |-> <<>>]
    ELSE [threw |-> FALSE, text |-> d.text]

HttpScheme == <<"h", "t", "t", "p", ":", "/", "/">>

CodeEquals == <<"c", "o", "d", "e", "=">>

\* new URL(url) without a base: a string without a scheme throws; an
\* http:// string with a host parses
ParsesAsURL(url) ==
    /\ OccursAt(url, HttpScheme, 1)
    /\ Len(url) > Len(HttpScheme)
    /\ url[Len(HttpScheme) + 1] \notin {"/", "?", "#"}

\* the query of a string: what follows the first "?" up to the fragment
QueryOf(url) ==
    LET h == IndexFrom(url, "#", 1)
        q == IndexFrom(url, "?", 1) IN
    IF q >= h THEN <<>> ELSE SubSeq(url, q + 1, h - 1)

\* the name=value pieces of a query, as URLSearchParams splits them
ParamsOf(query) ==
    LET pieces == SelectSeq(Split(query, "&"), LAMBDA x : x # <<>>)
        Pair(x) == LET e == IndexFrom(x, "=", 1) IN
                   [name |-> PercentDecode(SubSeq(x, 1, e - 1), 1).text,
                    raw |-> SubSeq(x, e + 1, Len(x)),
                    value |-> PercentDecode(SubSeq(x, e + 1, Len(x)), 1).text]
    IN [k \in 1..Len(pieces) |-> Pair(pieces[k])]

NamedCode(params) == {k \in 1..Len(params) : params[k].name = <<"c", "o", "d", "e">>}

\* parsedUrl.searchParams.get("code"): the first such parameter, or null
searchParamsGetCode(url) ==
    LET params == ParamsOf(QueryOf(url))
        named == NamedCode(params) IN
    IF named = {} THEN [null |-> TRUE, text |-> <<>>]
    ELSE [null |-> FALSE,
          text |-> params[CHOOSE k \in named : \A j \in named : k <= j].value]

matchCodeAllowEmpty(url) ==
    LET starts == {p \in 1..Len(url) : OccursAt(url, CodeEquals, p)} IN
    IF starts = {} THEN [matched |-> FALSE, group |-> <<>>]
    ELSE LET p == CHOOSE x \in starts : \A y \in starts : x <= y
             from == p + Len(CodeEquals) IN
         [matched |-> TRUE, group |-> SubSeq(url, from, IndexFrom(url, "&", from) - 1)]

\* url.match(/code=([^&]+)/): the leftmost "code=" that is followed by a
\* character other than "&", and the run of such characters after it
matchCode(url) ==
    LET starts == {p \in 1..Len(url) :
                     /\ OccursAt(url, CodeEquals, p)
                     /\ p + Len(CodeEquals) <= Len(url)
                     /\ url[p + Len(CodeEquals)] # "&"} IN
    IF starts = {} THEN [matched |-> FALSE, group |-> <<>>]
    ELSE LET p == CHOOSE x \in starts : \A y \in starts : x <= y
             from == p + Len(CodeEquals) IN
         [matched |-> TRUE, group |-> SubSeq(url, from, IndexFrom(url, "&", from) - 1)]

Returned(code) == [threw |-> FALSE, error |-> "", code |-> code]

Thrown(msg) == [threw |-> TRUE, error |-> msg, code |-> <<>>]

\* the catch block of extractCodeFromUrl
extractCodeFallback(url) ==
    LET m == matchCode(url) IN
    IF Includes(url, CodeEquals) /\ m.matched
    THEN LET d == decodeURIComponent(m.group) IN
         IF d.threw THEN Thrown("URIError") ELSE Returned(d.text)
    ELSE Thrown("Invalid redirect URL")

\* extractCodeFromUrl(url): the throw of the try block is caught by its own
\* catch, so a URL without a usable code parameter is scanned as well
extractCodeFromUrl(url) ==
    IF ParsesAsURL(url)
    THEN LET code == searchParamsGetCode(url) IN
         IF code.null \/ code.text = <<>> THEN extractCodeFallback(url)
         ELSE Returned(code.text)
    ELSE extractCodeFallback(url)

NoExtract == [url |-> <<>>, done |-> FALSE, result |-> Thrown("")]

\* extractCodeFromUrl is applied to the redirect string
ExtractCode ==
    /\ ~extract.done
    /\ extract' = [extract EXCEPT !.done = TRUE, !.result = extractCodeFromUrl(extract.url)]
    /\ UNCHANGED <<credsSet, cli, service>>
    /\ UNCHANGED storeVars
    /\ UNCHANGED flowVars

\* the redirect strings: a prefix, up to MaxParams parameters, a fragment
MaxParams == 2

LocalUrl == HttpScheme \o <<"h">>

LocalUrlWithPath == LocalUrl \o <<"/">> \o CodeEquals \o <<"p">>

NotAUrl == <<"n", "o", "u", "r", "l">>

ParamNames == {<<"c", "o", "d", "e">>, <<"x", "c", "o", "d", "e">>, <<"e", "r", "r">>}

ParamValues == {<<>>, <<"a", "b">>, <<"a", "%", "2", "F", "b">>, <<"%">>}

RECURSIVE JoinParams(_)
JoinParams(ps) ==
    IF ps = <<>> THEN <<>>
    ELSE IF Len(ps) = 1 THEN ps[1]
    ELSE ps[1] \o <<"&">> \o JoinParams(Tail(ps))

Redirects ==
    LET texts == {n \o <<"=">> \o v : n \in ParamNames, v \in ParamValues}
        queries == {<<>>} \cup {<<"?">> \o JoinParams(ps) :
                                  ps \in SeqsUpTo(texts, MaxParams) \ {<<>>}}
    IN  {prefix \o q \o f : prefix \in {LocalUrl, LocalUrlWithPath, NotAUrl},
                             q \in queries, f \in {<<>>, <<"#", "f">>}}

\* ------------------------------------------------------------------------
\* OAuthFlow: the interactive authorization run (authorizeBrowser)
\* ------------------------------------------------------------------------
MaxRequests == 2     \* requests a run's listener handles per behaviour

Runs == {1, 2}       \* authorization runs, all on the one redirect port

\* if (x): the truthiness of a string, null or undefined
Truthy(x) == x.t = "string" /\ x.v # ""

\* a promise that is not settled yet
Pending == [status |-> "pending", kind |-> "none", message |-> "", value |-> JUndef]

Fulfilled(val) ==
    [status |-> "fulfilled", kind |-> "success", message |-> "", value |-> val]

Rejected(k, msg) ==
    [status |-> "rejected", kind |-> k, message |-> msg, value |-> JUndef]

SettleOverwrite(promise, settlement) == settlement

\* resolve(...) / reject(...) of the promise authorize() returns: only the
\* first call settles it
Settle(promise, settlement) ==
    IF promise.status = "pending" THEN settlement ELSE promise

serverCloseNoop(server) == server

\* server.close(): a listening server stops listening (and frees the port)
serverClose(server) == IF server = "listening" THEN "closed" ELSE server

NoResponse == [status |-> 0, page |-> ""]

NoTokens == [rejected |-> FALSE, refresh_token |-> JUndef, access_token |-> JUndef]

\* what oauth2Client.getToken(code) can produce: a rejection, or tokens
TokenResponses ==
    {[rejected |-> TRUE, refresh_token |-> JUndef, access_token |-> JUndef]}
    \cup {[rejected |-> FALSE, refresh_token |-> rt, access_token |-> at] :
            rt \in {JUndef, JNull, JStr(""), JStr("refresh-token")},
            at \in {JUndef, JNull, JStr("access-token")}}

GetTokenError == "invalid_grant"

NoRefreshToken ==
    "No refresh token received" \o ". Try revoking app access and re-authorizing."

\* x ?? undefined
OrUndefined(x) == IF x.t \in {"null", "undefined"} THEN JUndef ELSE x

exchangeCodeNoCheck(resp) ==
    IF resp.rejected
    THEN [threw |-> TRUE, message |-> GetTokenError, value |-> JUndef]
    ELSE [threw |-> FALSE, message |-> "",
          value |-> JObj([refreshToken |-> resp.refresh_token,
                          accessToken |-> OrUndefined(resp.access_token)])]

\* exchangeCode(code), given what getToken answered
exchangeCode(resp) ==
    IF resp.rejected
    THEN [threw |-> TRUE, message |-> GetTokenError, value |-> JUndef]
    ELSE IF ~Truthy(resp.refresh_token)
    THEN [threw |-> TRUE, message |-> NoRefreshToken, value |-> JUndef]
    ELSE [threw |-> FALSE, message |-> "",
          value |-> JObj([refreshToken |-> resp.refresh_token,
                          accessToken |-> OrUndefined(resp.access_token)])]

NoResult == [threw |-> FALSE, message |-> "", value |-> JUndef]

NoRequest == [code |-> JNull, error |-> JNull]

IdleFlow ==
    [pc |-> "idle",            \* idle | opening | started | asking | read
     server |-> "none",        \* none | listening | errorPending | failed | closed
     timer |-> "none",         \* none | armed | fired
     exchange |-> "none",      \* none | inflight | returned
     outcome |-> Pending,      \* the promise authorize() returned
     response |-> NoResponse,  \* the last HTTP response written
     tokens |-> NoTokens,      \* what getToken answered
     result |-> NoResult,      \* what exchangeCode returned or threw
     request |-> NoRequest,    \* the last request handled
     nLines |-> 0,             \* lines read from the terminal (manual mode)
     extracted |-> NoExtract.result,  \* what extractCodeFromUrl made of the line
     nRequests |-> 0,          \* requests handled
     nCompleting |-> 0,        \* handled requests that carried a code or an error
     nExchanges |-> 0,         \* calls of exchangeCode
     nListens |-> 0,           \* calls of server.listen
     lateRequests |-> 0,       \* requests handled after a completing one
     lateEvents |-> 0]         \* resolve/reject calls on the settled promise

FlowIdle ==
    /\ flow = [r \in Runs |-> IdleFlow]
    /\ portBusyElsewhere = FALSE

\* the requests a listener may receive, by what url.searchParams.get returns
\* for "code" and "error" (null when the parameter is absent); every request
\* target is taken to parse as a URL relative to REDIRECT_URI
Requests == [code : {JNull, JStr(""), JStr("auth_code_123")},
             error : {JNull, JStr(""), JStr("access_denied")}]

Late(f) == IF f.outcome.status = "pending" THEN 0 ELSE 1

\* authorize(false) up to the await of openBrowser
Authorize(r) ==
    /\ flow[r].pc = "idle"
    /\ flow' = [flow EXCEPT ![r].pc = "opening"]
    /\ UNCHANGED portBusyElsewhere
    /\ UNCHANGED storeVars
    /\ UNCHANGED appVars

PortFree(r) ==
    /\ ~portBusyElsewhere
    /\ \A q \in Runs \ {r} : flow[q].server # "listening"

\* openBrowser resolved; the promise executor creates the server, calls
\* listen, registers the error listener and arms the timeout
StartServer(r) ==
    /\ flow[r].pc = "opening"
    /\ flow' = [flow EXCEPT ![r].pc = "started",
                            ![r].server = IF PortFree(r) THEN "listening"
                                          ELSE "errorPending",
                            ![r].nListens = @ + 1,
                            ![r].timer = "armed"]
    /\ UNCHANGED portBusyElsewhere
    /\ UNCHANGED storeVars
    /\ UNCHANGED appVars

BindErrorNoReject(r) ==
    /\ flow[r].server = "errorPending"
    /\ flow' = [flow EXCEPT ![r].server = "failed"]
    /\ UNCHANGED portBusyElsewhere
    /\ UNCHANGED storeVars
    /\ UNCHANGED appVars

\* server.on("error", ...)
BindError(r) ==
    /\ flow[r].server = "errorPending"
    /\ flow' = [flow EXCEPT
                  ![r].server = "failed",
                  ![r].lateEvents = @ + Late(flow[r]),
                  ![r].outcome = Settle(@, Rejected("bind",
                      "Failed to start local server: " \o "listen EADDRINUSE"))]
    /\ UNCHANGED portBusyElsewhere
    /\ UNCHANGED storeVars
    /\ UNCHANGED appVars

requestHandlerNoCloseOnError(f, req) ==
    IF Truthy(req.error)
    THEN [f EXCEPT !.response = [status |-> 400, page |-> "Authorization Failed"],
                   !.outcome = Settle(@, Rejected("denial",
                                   "Authorization failed: " \o req.error.v)),
                   !.lateEvents = @ + Late(f)]
    ELSE IF Truthy(req.code)
    THEN [f EXCEPT !.response = [status |-> 200, page |-> "Authorization Successful"],
                   !.server = serverClose(@),
                   !.exchange = "inflight",
                   !.nExchanges = @ + 1]
    ELSE [f EXCEPT !.response = [status |-> 400, page |-> "Invalid Request"]]

requestHandlerRejectsInvalid(f, req) ==
    IF Truthy(req.error) \/ Truthy(req.code)
    THEN requestHandlerNoCloseOnError([f EXCEPT !.server = serverClose(@)], req)
    ELSE [f EXCEPT !.response = [status |-> 400, page |-> "Invalid Request"],
                   !.server = serverClose(@),
                   !.outcome = Settle(@, Rejected("denial", "Invalid Request")),
                   !.lateEvents = @ + Late(f)]

requestHandlerCodeFirst(f, req) ==
    IF Truthy(req.code)
    THEN [f EXCEPT !.response = [status |-> 200, page |-> "Authorization Successful"],
                   !.server = serverClose(@),
                   !.exchange = "inflight",
                   !.nExchanges = @ + 1]
    ELSE IF Truthy(req.error)
    THEN [f EXCEPT !.response = [status |-> 400, page |-> "Authorization Failed"],
                   !.server = serverClose(@),
                   !.outcome = Settle(@, Rejected("denial",
                                   "Authorization failed: " \o req.error.v)),
                   !.lateEvents = @ + Late(f)]
    ELSE [f EXCEPT !.response = [status |-> 400, page |-> "Invalid Request"]]

requestHandlerClosesOnInvalid(f, req) ==
    IF Truthy(req.error)
    THEN [f EXCEPT !.response = [status |-> 400, page |-> "Authorization Failed"],
                   !.server = serverClose(@),
                   !.outcome = Settle(@, Rejected("denial",
                                   "Authorization failed: " \o req.error.v)),
                   !.lateEvents = @ + Late(f)]
    ELSE IF Truthy(req.code)
    THEN [f EXCEPT !.response = [status |-> 200, page |-> "Authorization Successful"],
                   !.server = serverClose(@),
                   !.exchange = "inflight",
                   !.nExchanges = @ + 1]
    ELSE [f EXCEPT !.response = [status |-> 400, page |-> "Invalid Request"],
                   !.server = serverClose(@)]

\* the request listener of http.createServer, up to its await
requestHandler(f, req) ==
    IF Truthy(req.error)
    THEN [f EXCEPT !.response = [status |-> 400, page |-> "Authorization Failed"],
                   !.server = serverClose(@),
                   !.outcome = Settle(@, Rejected("denial",
                                   "Authorization failed: " \o req.error.v)),
                   !.lateEvents = @ + Late(f)]
    ELSE IF Truthy(req.code)
    THEN [f EXCEPT !.response = [status |-> 200, page |-> "Authorization Successful"],
                   !.server = serverClose(@),
                   !.exchange = "inflight",
                   !.nExchanges = @ + 1]
    ELSE [f EXCEPT !.response = [status |-> 400, page |-> "Invalid Request"]]

\* a request reaches the server; a server that is not listening accepts no
\* connection, so it is handed no request
HandleRequest(r, req) ==
    /\ flow[r].server = "listening"
    /\ flow[r].nRequests < MaxRequests
    /\ LET f == requestHandler(flow[r], req)
           completing == Truthy(req.error) \/ Truthy(req.code) IN
       flow' = [flow EXCEPT ![r] =
                  [f EXCEPT !.request = req,
                            !.nRequests = @ + 1,
                            !.nCompleting = @ + (IF completing THEN 1 ELSE 0),
                            !.lateRequests =
                                @ + (IF flow[r].nCompleting > 0 THEN 1 ELSE 0)]]
    /\ UNCHANGED portBusyElsewhere
    /\ UNCHANGED storeVars
    /\ UNCHANGED appVars

\* the awaited exchangeCode(code) of the request listener settles
ExchangeReturn(r, resp) ==
    /\ flow[r].exchange = "inflight"
    /\ LET res == exchangeCode(resp) IN
       flow' = [flow EXCEPT
                  ![r].exchange = "returned",
                  ![r].tokens = resp,
                  ![r].result = res,
                  ![r].lateEvents = @ + Late(flow[r]),
                  ![r].outcome = Settle(@, IF res.threw
                                           THEN Rejected("exchange", res.message)
                                           ELSE Fulfilled(res.value))]
    /\ UNCHANGED portBusyElsewhere
    /\ UNCHANGED storeVars
    /\ UNCHANGED appVars

AuthorizeManualWithTimeout(r) ==
    /\ flow[r].pc = "idle"
    /\ flow' = [flow EXCEPT ![r].pc = "asking", ![r].timer = "armed"]
    /\ UNCHANGED portBusyElsewhere
    /\ UNCHANGED storeVars
    /\ UNCHANGED appVars

\* authorize(true): authorizeManual prints the URL and asks for one line
AuthorizeManual(r) ==
    /\ flow[r].pc = "idle"
    /\ flow' = [flow EXCEPT ![r].pc = "asking"]
    /\ UNCHANGED portBusyElsewhere
    /\ UNCHANGED storeVars
    /\ UNCHANGED appVars

\* the rl.question callback, up to its await: the line is given to
\* extractCodeFromUrl, whose throw rejects the run
Question(r, redirectUrl) ==
    /\ flow[r].pc = "asking"
    /\ LET x == extractCodeFromUrl(redirectUrl) IN
       flow' = [flow EXCEPT
                  ![r].pc = "read",
                  ![r].nLines = @ + 1,
                  ![r].extracted = x,
                  ![r].exchange = IF x.threw THEN @ ELSE "inflight",
                  ![r].nExchanges = IF x.threw THEN @ ELSE @ + 1,
                  ![r].lateEvents = @ + (IF x.threw THEN Late(flow[r]) ELSE 0),
                  ![r].outcome = IF x.threw THEN Settle(@, Rejected("extract", x.error))
                                 ELSE @]
    /\ UNCHANGED portBusyElsewhere
    /\ UNCHANGED storeVars
    /\ UNCHANGED appVars

\* lines pasted at the prompt
ManualLines ==
    {<<>>,
     LocalUrl \o <<"?">> \o CodeEquals \o <<"a", "%", "2", "F", "b">>,
     LocalUrl \o <<"?", "e", "r", "r", "=", "a", "b">>,
     NotAUrl \o <<"?">> \o CodeEquals \o <<"a", "b">>,
     NotAUrl \o <<"?">> \o CodeEquals,
     NotAUrl \o <<"?">> \o CodeEquals \o <<"%">>}

TimeoutMessage == "Authorization timed out after 5 minutes"

\* the setTimeout callback; an emitted bind error is delivered first
TimerFire(r) ==
    /\ flow[r].timer = "armed"
    /\ flow[r].server # "errorPending"
    /\ flow' = [flow EXCEPT
                  ![r].timer = "fired",
                  ![r].server = serverClose(@),
                  ![r].lateEvents = @ + Late(flow[r]),
                  ![r].outcome = Settle(@, Rejected("timeout", TimeoutMessage))]
    /\ UNCHANGED portBusyElsewhere
    /\ UNCHANGED storeVars
    /\ UNCHANGED appVars

\* another program takes or releases the redirect port
OtherProgram ==
    /\ portBusyElsewhere' = ~portBusyElsewhere
    /\ portBusyElsewhere \/ \A r \in Runs : flow[r].server # "listening"
    /\ UNCHANGED flow
    /\ UNCHANGED storeVars
    /\ UNCHANGED appVars

\* ------------------------------------------------------------------------
\* The command line: gtcli accounts add <email>
\* ------------------------------------------------------------------------
\* the process uses the store instance created when the module is loaded
\* and one authorization run
CliStore == 1

CliRun == 1

IdleCli ==
    [pc |-> "idle",            \* idle | authorizing | done | exited
     email |-> "",             \* the <email> argument
     had |-> FALSE,            \* hasAccount(email) when the command started
     before |-> JUndef,        \* the stored record of email at that time
     fileBefore |-> NoFile,    \* accounts.json at that time
     creds |-> JNull,          \* what getCredentials returned
     credsRead |-> 0,          \* calls of getCredentials
     code |-> 0,               \* exit code
     message |-> ""]           \* what was printed last

\* error(msg): console.error and process.exit(1)
CliError(c, msg) == [c EXCEPT !.pc = "exited", !.code = 1, !.message = msg]

CliAccountsAddNoDuplicateCheck(email, manual) ==
    /\ cli.pc = "idle"
    /\ stores[CliStore].state = "open"
    /\ flow[CliRun].pc = "idle"
    /\ LET c == [cli EXCEPT !.email = email,
                            !.had = hasAccount(stores[CliStore].accounts, email),
                            !.before = getAccount(stores[CliStore].accounts, email),
                            !.fileBefore = accountsFile,
                            !.creds = getCredentials(credentialsFile).value,
                            !.credsRead = @ + 1]
       IN  IF c.creds = JNull
           THEN /\ cli' = CliError(c, "No credentials configured. "
                                         \o "Run: gtcli accounts credentials <credentials.json>")
                /\ UNCHANGED flow
           ELSE /\ cli' = [c EXCEPT !.pc = "authorizing"]
                /\ flow' = [flow EXCEPT ![CliRun].pc = IF manual THEN "asking"
                                                       ELSE "opening"]
    /\ UNCHANGED portBusyElsewhere
    /\ UNCHANGED storeVars
    /\ UNCHANGED <<credsSet, extract, service>>

CliAccountsAddNoCredentialsCheck(email, manual) ==
    /\ cli.pc = "idle"
    /\ stores[CliStore].state = "open"
    /\ flow[CliRun].pc = "idle"
    /\ LET c == [cli EXCEPT !.email = email,
                            !.had = hasAccount(stores[CliStore].accounts, email),
                            !.before = getAccount(stores[CliStore].accounts, email),
                            !.fileBefore = accountsFile]
           g == [c EXCEPT !.creds = getCredentials(credentialsFile).value,
                          !.credsRead = @ + 1]
       IN  IF c.had
           THEN /\ cli' = CliError(c, "Account '" \o email \o "' already exists")
                /\ UNCHANGED flow
           ELSE /\ cli' = [g EXCEPT !.pc = "authorizing"]
                /\ flow' = [flow EXCEPT ![CliRun].pc = IF manual THEN "asking"
                                                       ELSE "opening"]
    /\ UNCHANGED portBusyElsewhere
    /\ UNCHANGED storeVars
    /\ UNCHANGED <<credsSet, extract, service>>

\* handleAccounts, case "add", up to the await of flow.authorize(manual);
\* manual is the --manual flag
CliAccountsAdd(email, manual) ==
    /\ cli.pc = "idle"
    /\ stores[CliStore].state = "open"
    /\ flow[CliRun].pc = "idle"
    /\ LET c == [cli EXCEPT !.email = email,
                            !.had = hasAccount(stores[CliStore].accounts, email),
                            !.before = getAccount(stores[CliStore].accounts, email),
                            !.fileBefore = accountsFile]
           g == [c EXCEPT !.creds = getCredentials(credentialsFile).value,
                          !.credsRead = @ + 1]
       IN  IF c.had
           THEN /\ cli' = CliError(c, "Account '" \o email \o "' already exists")
                /\ UNCHANGED flow
           ELSE IF g.creds = JNull
           THEN /\ cli' = CliError(g, "No credentials configured. "
                                         \o "Run: gtcli accounts credentials <credentials.json>")
                /\ UNCHANGED flow
           ELSE /\ cli' = [g EXCEPT !.pc = "authorizing"]
                /\ flow' = [flow EXCEPT ![CliRun].pc = IF manual THEN "asking"
                                                       ELSE "opening"]
    /\ UNCHANGED portBusyElsewhere
    /\ UNCHANGED storeVars
    /\ UNCHANGED <<credsSet, extract, service>>

CliAddFinishWritingOnFailure ==
    /\ cli.pc = "authorizing"
    /\ flow[CliRun].outcome.status # "pending"
    /\ LET result == flow[CliRun].outcome.value
           account == JObj([email |-> JStr(cli.email),
                            oauth2 |-> JObj([clientId |-> Prop(cli.creds, "clientId"),
                                             clientSecret |-> Prop(cli.creds, "clientSecret"),
                                             refreshToken |-> Prop(result, "refreshToken"),
                                             accessToken |-> Prop(result, "accessToken")])])
           m2 == MapSet(stores[CliStore].accounts, cli.email, account)
       IN  /\ stores' = [stores EXCEPT ![CliStore].accounts = m2]
           /\ accountsFile' = saveAccounts(m2)
           /\ wrote' = wrote \cup {CliStore}
           /\ cli' = IF flow[CliRun].outcome.status = "fulfilled"
                     THEN [cli EXCEPT !.pc = "done",
                                      !.message = "Account '" \o cli.email \o "' added"]
                     ELSE CliError(cli, flow[CliRun].outcome.message)
    /\ UNCHANGED <<configDir, credentialsFile, last, nops>>
    /\ UNCHANGED flowVars
    /\ UNCHANGED <<credsSet, extract, service>>

\* the awaited flow.authorize settles: the account is built and added, or
\* the rejection reaches the catch of main and the process exits
CliAddFinish ==
    /\ cli.pc = "authorizing"
    /\ flow[CliRun].outcome.status # "pending"
    /\ IF flow[CliRun].outcome.status = "fulfilled"
       THEN LET result == flow[CliRun].outcome.value
                account == JObj([email |-> JStr(cli.email),
                                 oauth2 |-> JObj([clientId |-> Prop(cli.creds, "clientId"),
                                                  clientSecret |-> Prop(cli.creds, "clientSecret"),
                                                  refreshToken |-> Prop(result, "refreshToken"),
                                                  accessToken |-> Prop(result, "accessToken")])])
                m2 == MapSet(stores[CliStore].accounts, cli.email, account)
            IN  /\ stores' = [stores EXCEPT ![CliStore].accounts = m2]
                /\ accountsFile' = saveAccounts(m2)
                /\ wrote' = wrote \cup {CliStore}
                /\ cli' = [cli EXCEPT !.pc = "done",
                                      !.message = "Account '" \o cli.email \o "' added"]
       ELSE /\ cli' = CliError(cli, flow[CliRun].outcome.message)
            /\ UNCHANGED <<stores, accountsFile, wrote>>
    /\ UNCHANGED <<configDir, credentialsFile, last, nops>>
    /\ UNCHANGED flowVars
    /\ UNCHANGED <<credsSet, extract, service>>

\* ------------------------------------------------------------------------
\* BaseService / TaskService: the client caches
\* ------------------------------------------------------------------------
MaxCalls == 4        \* service calls per behaviour

\* the AccountStorage instance the service was constructed with
ServiceStore == 1

NoServiceCall ==
    [op |-> "none", arg |-> JUndef, threw |-> FALSE, message |-> "",
     result |-> JUndef,          \* the client returned
     hadRecord |-> FALSE,        \* the store held a record of the email
     clientsBefore |-> <<>>,     \* this.clients before the call
     tasksClientsBefore |-> <<>>,
     builtBefore |-> 0,
     remoteBefore |-> 0]

IdleService ==
    [clients |-> <<>>,           \* Map<string, OAuth2Client>
     tasksClients |-> <<>>,      \* Map<string, tasks_v1.Tasks>
     built |-> 0,                \* OAuth2Client instances constructed
     remote |-> 0,               \* remote requests sent
     calls |-> 0,
     last |-> NoServiceCall,
     task |-> [pc |-> "idle",        \* idle | getting | updating | done | failed
               op |-> "none",        \* update | complete | uncomplete
               options |-> JUndef,   \* the options update was called with
               data |-> JUndef,      \* response.data of tasks.get
               currentTask |-> JUndef,
               requestBody |-> JUndef,   \* what tasks.update was called with
               gets |-> 0,           \* calls of tasks.get
               updates |-> 0]]       \* calls of tasks.update

\* createOAuth2Client(account): the id stands for the instance's identity
createOAuth2Client(account, id) ==
    JObj([id |-> JNum(id),
          refresh_token |-> Prop(Prop(account, "oauth2"), "refreshToken"),
          access_token |-> Prop(Prop(account, "oauth2"), "accessToken")])

getOAuth2ClientAlwaysBuild(svc, accounts, email) ==
    LET account == getAccount(accounts, email) IN
    IF account = JUndef
    THEN [threw |-> TRUE, message |-> "Account '" \o email \o "' not found",
          client |-> JUndef, svc |-> svc]
    ELSE LET client == createOAuth2Client(account, svc.built + 1) IN
         [threw |-> FALSE, message |-> "", client |-> client,
          svc |-> [svc EXCEPT !.built = @ + 1,
                              !.clients = MapSet(@, email, client)]]

\* getOAuth2Client(email)
getOAuth2Client(svc, accounts, email) ==
    IF ~MapHas(svc.clients, email)
    THEN LET account == getAccount(accounts, email) IN
         IF account = JUndef
         THEN [threw |-> TRUE, message |-> "Account '" \o email \o "' not found",
               client |-> JUndef, svc |-> svc]
         ELSE LET client == createOAuth2Client(account, svc.built + 1) IN
              [threw |-> FALSE, message |-> "", client |-> client,
               svc |-> [svc EXCEPT !.built = @ + 1,
                                   !.clients = MapSet(@, email, client)]]
    ELSE [threw |-> FALSE, message |-> "", client |-> MapGet(svc.clients, email),
          svc |-> svc]

\* TaskService.getTasksClient(email): google.tasks({version, auth})
getTasksClient(svc, accounts, email) ==
    IF ~MapHas(svc.tasksClients, email)
    THEN LET g == getOAuth2Client(svc, accounts, email) IN
         IF g.threw THEN g
         ELSE [g EXCEPT !.svc.tasksClients = MapSet(@, email, JObj([auth |-> g.client])),
                        !.client = JObj([auth |-> g.client])]
    ELSE [threw |-> FALSE, message |-> "", client |-> MapGet(svc.tasksClients, email),
          svc |-> svc]

clearClientCacheAll(clients, email) == <<>>

\* clearClientCache(email?)
clearClientCache(clients, email) ==
    IF Truthy(email) THEN MapDelete(clients, email.v) ELSE <<>>

ServiceCall(svc, o, a, g, had) ==
    [op |-> o, arg |-> a, threw |-> g.threw, message |-> g.message,
     result |-> g.client, hadRecord |-> had,
     clientsBefore |-> svc.clients, tasksClientsBefore |-> svc.tasksClients,
     builtBefore |-> svc.built, remoteBefore |-> svc.remote]

\* a call of getOAuth2Client(email), as the test subclass exposes it
GetOAuth2Client(email) ==
    /\ stores[ServiceStore].state = "open"
    /\ service.calls < MaxCalls
    /\ LET g == getOAuth2Client(service, stores[ServiceStore].accounts, email) IN
       service' = [g.svc EXCEPT
                     !.calls = @ + 1,
                     !.last = ServiceCall(service, "getOAuth2Client", JStr(email), g,
                                          hasAccount(stores[ServiceStore].accounts, email))]
    /\ UNCHANGED <<credsSet, extract, cli>>
    /\ UNCHANGED storeVars
    /\ UNCHANGED flowVars

\* TaskService.list(email, taskListId) up to the remote request it sends
ServiceList(email) ==
    /\ stores[ServiceStore].state = "open"
    /\ service.calls < MaxCalls
    /\ LET g == getTasksClient(service, stores[ServiceStore].accounts, email) IN
       service' = [g.svc EXCEPT
                     !.calls = @ + 1,
                     !.remote = @ + (IF g.threw THEN 0 ELSE 1),
                     !.last = ServiceCall(service, "list", JStr(email), g,
                                          hasAccount(stores[ServiceStore].accounts, email))]
    /\ UNCHANGED <<credsSet, extract, cli>>
    /\ UNCHANGED storeVars
    /\ UNCHANGED flowVars

NoClient == [threw |-> FALSE, message |-> "", client |-> JUndef]

ClearClientCache(email) ==
    /\ service.calls < MaxCalls
    /\ service' = [service EXCEPT
                     !.clients = clearClientCache(@, email),
                     !.calls = @ + 1,
                     !.last = ServiceCall(service, "clearClientCache", email, NoClient, FALSE)]
    /\ UNCHANGED <<credsSet, extract, cli>>
    /\ UNCHANGED storeVars
    /\ UNCHANGED flowVars

\* TaskService.clearTasksClientCache(email?)
ClearTasksClientCache(email) ==
    /\ service.calls < MaxCalls
    /\ service' = [service EXCEPT
                     !.tasksClients = IF Truthy(email) THEN MapDelete(@, email.v) ELSE <<>>,
                     !.clients = clearClientCache(@, email),
                     !.calls = @ + 1,
                     !.last = ServiceCall(service, "clearTasksClientCache", email,
                                          NoClient, FALSE)]
    /\ UNCHANGED <<credsSet, extract, cli>>
    /\ UNCHANGED storeVars
    /\ UNCHANGED flowVars

\* the arguments of the cache invalidations: an email, or none
ClearArgs == {JUndef} \cup {JStr(e) : e \in Emails}

\* x ?? d
Coalesce(x, d) == IF x.t \in {"null", "undefined"} THEN d ELSE x

\* mapTask(task), the fields update reads
mapTask(task) ==
    JObj([id |-> Coalesce(Prop(task, "id"), JStr("")),
          title |-> Coalesce(Prop(task, "title"), JStr("")),
          status |-> Coalesce(Prop(task, "status"), JStr("needsAction")),
          due |-> Coalesce(Prop(task, "due"), JUndef),
          notes |-> Coalesce(Prop(task, "notes"), JUndef)])

requestBodyFalsyFallsBack(taskId, options, currentTask) ==
    LET or(x, d) == IF Truthy(x) THEN x ELSE d IN
    JObj([id |-> JStr(taskId),
          title |-> or(Prop(options, "title"), Prop(currentTask, "title")),
          notes |-> or(Prop(options, "notes"), Prop(currentTask, "notes")),
          due |-> or(Prop(options, "due"), Prop(currentTask, "due")),
          status |-> or(Prop(options, "status"), Prop(currentTask, "status"))])

\* the requestBody update builds from its options and the task it read
requestBody(taskId, options, currentTask) ==
    JObj([id |-> JStr(taskId),
          title |-> Coalesce(Prop(options, "title"), Prop(currentTask, "title")),
          notes |-> Coalesce(Prop(options, "notes"), Prop(currentTask, "notes")),
          due |-> Coalesce(Prop(options, "due"), Prop(currentTask, "due")),
          status |-> Coalesce(Prop(options, "status"), Prop(currentTask, "status"))])

\* UpdateTaskOptions: every field optional
TaskOptions ==
    {JObj([title |-> t, notes |-> n, due |-> d, status |-> st]) :
        t \in {JUndef, JStr(""), JStr("New Title")},
        n \in {JUndef, JStr("New notes")},
        d \in {JUndef, JStr("2024-02-01")},
        st \in {JUndef, JStr("needsAction"), JStr("completed")}}

\* what tasks.get answers for the task (tasks_v1.Schema$Task: fields nullable)
TaskData ==
    {JObj([id |-> JStr("task1"), title |-> t, notes |-> n, due |-> d, status |-> st]) :
        t \in {JNull, JStr("Old Title")},
        n \in {JNull, JStr("Old notes")},
        d \in {JNull, JStr("2024-01-01")},
        st \in {JNull, JStr("needsAction"), JStr("completed")}}

\* the start of update(email, taskListId, "task1", options): getTasksClient,
\* then this.get, which sends tasks.get
StartUpdate(op, email, options) ==
    /\ stores[ServiceStore].state = "open"
    /\ service.task.pc = "idle"
    /\ LET g == getTasksClient(service, stores[ServiceStore].accounts, email) IN
       service' = [g.svc EXCEPT
                     !.remote = @ + (IF g.threw THEN 0 ELSE 1),
                     !.task.op = op,
                     !.task.options = options,
                     !.task.gets = @ + (IF g.threw THEN 0 ELSE 1),
                     !.task.pc = IF g.threw THEN "failed" ELSE "getting"]
    /\ UNCHANGED <<credsSet, extract, cli>>
    /\ UNCHANGED storeVars
    /\ UNCHANGED flowVars

\* TaskService.update(email, taskListId, taskId, options)
Update(email, options) == StartUpdate("update", email, options)

\* TaskService.complete(email, taskListId, taskId)
Complete(email) ==
    StartUpdate("complete", email, JObj([status |-> JStr("completed")]))

\* TaskService.uncomplete(email, taskListId, taskId)
Uncomplete(email) ==
    StartUpdate("uncomplete", email, JObj([status |-> JStr("needsAction")]))

\* tasks.get settles: a rejection ends update, an answer is mapped and the
\* update request is sent
GetReturn(rejected, data) ==
    /\ service.task.pc = "getting"
    /\ IF rejected
       THEN service' = [service EXCEPT !.task.pc = "failed"]
       ELSE LET currentTask == mapTask(data) IN
            service' = [service EXCEPT
                          !.remote = @ + 1,
                          !.task.data = data,
                          !.task.currentTask = currentTask,
                          !.task.requestBody =
                              requestBody("task1", service.task.options, currentTask),
                          !.task.updates = @ + 1,
                          !.task.pc = "updating"]
    /\ UNCHANGED <<credsSet, extract, cli>>
    /\ UNCHANGED storeVars
    /\ UNCHANGED flowVars

\* tasks.update settles
UpdateReturn(rejected) ==
    /\ service.task.pc = "updating"
    /\ service' = [service EXCEPT !.task.pc = IF rejected THEN "failed" ELSE "done"]
    /\ UNCHANGED <<credsSet, extract, cli>>
    /\ UNCHANGED storeVars
    /\ UNCHANGED flowVars

AppIdle ==
    /\ credsSet = NoCreds
    /\ extract = NoExtract
    /\ cli = IdleCli
    /\ service = IdleService

\* ------------------------------------------------------------------------
\* Specifications
\* ------------------------------------------------------------------------
\* constructing stores over a directory in an arbitrary condition
InitLoad ==
    /\ FlowIdle
    /\ AppIdle
    /\ configDir \in {"absent", "present", "blocked"}
    /\ accountsFile \in IF configDir = "present" THEN ForeignAccountsFiles ELSE {NoFile}
    /\ credentialsFile = NoFile
    /\ stores = NoStores
    /\ last = NoCall
    /\ wrote = {}
    /\ nops = 0

NextLoad ==
    \/ \E i \in Stores : Construct(i)
    \/ \E i \in Stores : Discard(i)

SpecLoad == InitLoad /\ [][NextLoad]_vars

\* sequences of store operations by instances sharing a directory
InitStore ==
    /\ FlowIdle
    /\ AppIdle
    /\ configDir \in {"absent", "present"}
    /\ accountsFile \in IF configDir = "present" THEN StartAccountsFiles ELSE {NoFile}
    /\ credentialsFile = NoFile
    /\ stores = NoStores
    /\ last = NoCall
    /\ wrote = {}
    /\ nops = 0

NextStore ==
    \/ \E i \in Stores : Construct(i)
    \/ \E i \in Stores : Discard(i)
    \/ \E i \in Stores, a \in AccountInputs : AddAccount(i, a)
    \/ \E i \in Stores, e \in Emails : DeleteAccount(i, e)
    \/ \E i \in Stores, e \in Emails : GetAccount(i, e)
    \/ \E i \in Stores, e \in Emails : HasAccount(i, e)
    \/ \E i \in Stores : GetAllAccounts(i)

SpecStore == InitStore /\ [][NextStore]_vars

\* stores over one directory setting and reading the client credentials
InitCreds ==
    /\ FlowIdle
    /\ AppIdle
    /\ configDir = "present"
    /\ accountsFile = NoFile
    /\ credentialsFile \in ForeignCredentialsFiles
    /\ stores = NoStores
    /\ last = NoCall
    /\ wrote = {}
    /\ nops = 0

NextCreds ==
    \/ \E i \in Stores : Construct(i)
    \/ \E i \in Stores : Discard(i)
    \/ \E i \in Stores, id \in ClientIds, secret \in ClientSecrets :
          SetCredentials(i, id, secret)
    \/ \E i \in Stores : GetCredentials(i)

SpecCreds == InitCreds /\ [][NextCreds]_vars

\* extractCodeFromUrl applied to a redirect string
InitExtract ==
    /\ FlowIdle
    /\ credsSet = NoCreds
    /\ cli = IdleCli
    /\ service = IdleService
    /\ extract \in {[NoExtract EXCEPT !.url = u] : u \in Redirects}
    /\ configDir = "present"
    /\ accountsFile = NoFile
    /\ credentialsFile = NoFile
    /\ stores = NoStores
    /\ last = NoCall
    /\ wrote = {}
    /\ nops = 0

NextExtract == ExtractCode

SpecExtract == InitExtract /\ [][NextExtract]_vars

\* one gtcli process running accounts add, over a directory holding
\* accounts and credentials
InitCli ==
    /\ FlowIdle
    /\ AppIdle
    /\ configDir = "present"
    /\ accountsFile \in StartAccountsFiles
    /\ credentialsFile \in ForeignCredentialsFiles
    /\ stores = NoStores
    /\ last = NoCall
    /\ wrote = {}
    /\ nops = 0

\* process.exit ends the run's server and timer with the process
NextCli ==
    \/ Construct(CliStore)
    \/ \E e \in Emails, manual \in BOOLEAN : CliAccountsAdd(e, manual)
    \/ cli.pc # "exited" /\ StartServer(CliRun)
    \/ cli.pc # "exited" /\ BindError(CliRun)
    \/ cli.pc # "exited" /\ \E req \in Requests : HandleRequest(CliRun, req)
    \/ cli.pc # "exited" /\ \E resp \in TokenResponses : ExchangeReturn(CliRun, resp)
    \/ cli.pc # "exited" /\ TimerFire(CliRun)
    \/ cli.pc # "exited" /\ \E line \in ManualLines : Question(CliRun, line)
    \/ CliAddFinish
    \/ OtherProgram

SpecCli == InitCli /\ [][NextCli]_vars

\* a service over a store whose records are added and deleted meanwhile
InitService ==
    /\ FlowIdle
    /\ AppIdle
    /\ configDir = "present"
    /\ accountsFile \in {NoFile, TextFile(JArr(<<AcctNoAT("a@x.com", "r1")>>))}
    /\ credentialsFile = NoFile
    /\ stores = NoStores
    /\ last = NoCall
    /\ wrote = {}
    /\ nops = 0

NextService ==
    \/ Construct(ServiceStore)
    \/ \E a \in AccountInputs : AddAccount(ServiceStore, a)
    \/ \E e \in Emails : DeleteAccount(ServiceStore, e)
    \/ \E e \in Emails : GetOAuth2Client(e)
    \/ \E e \in Emails : ServiceList(e)
    \/ \E arg \in ClearArgs : ClearClientCache(arg)
    \/ \E arg \in ClearArgs : ClearTasksClientCache(arg)

SpecService == InitService /\ [][NextService]_vars

\* one update, complete or uncomplete of a task through a service
NextTask ==
    \/ Construct(ServiceStore)
    \/ \E e \in Emails, options \in TaskOptions : Update(e, options)
    \/ \E e \in Emails : Complete(e)
    \/ \E e \in Emails : Uncomplete(e)
    \/ \E data \in TaskData : GetReturn(FALSE, data)
    \/ GetReturn(TRUE, JUndef)
    \/ \E rejected \in BOOLEAN : UpdateReturn(rejected)

SpecTask == InitService /\ [][NextTask]_vars

\* one store constructed over a directory in an arbitrary condition, read
\* and then mutated
InitReads ==
    /\ FlowIdle
    /\ AppIdle
    /\ configDir \in {"absent", "present"}
    /\ accountsFile \in IF configDir = "present" THEN StartAccountsFiles ELSE {NoFile}
    /\ credentialsFile \in IF configDir = "present" THEN ForeignCredentialsFiles
                            ELSE {NoFile}
    /\ stores = NoStores
    /\ last = NoCall
    /\ wrote = {}
    /\ nops = 0

NextReads ==
    \/ Construct(1)
    \/ Discard(1)
    \/ \E a \in AccountInputs : AddAccount(1, a)
    \/ \E e \in Emails : DeleteAccount(1, e)
    \/ \E e \in Emails : GetAccount(1, e)
    \/ \E e \in Emails : HasAccount(1, e)
    \/ GetAllAccounts(1)
    \/ GetCredentials(1)

SpecReads == InitReads /\ [][NextReads]_vars

\* manual-mode authorization runs
InitManual ==
    /\ FlowIdle
    /\ AppIdle
    /\ configDir = "present"
    /\ accountsFile = NoFile
    /\ credentialsFile = NoFile
    /\ stores = NoStores
    /\ last = NoCall
    /\ wrote = {}
    /\ nops = 0

NextManual ==
    \/ \E r \in Runs : AuthorizeManual(r)
    \/ \E r \in Runs, line \in ManualLines : Question(r, line)
    \/ \E r \in Runs, resp \in TokenResponses : ExchangeReturn(r, resp)

SpecManual == InitManual /\ [][NextManual]_vars

\* interactive authorization runs sharing the redirect port
InitFlow ==
    /\ configDir = "present"
    /\ accountsFile = NoFile
    /\ credentialsFile = NoFile
    /\ stores = NoStores
    /\ last = NoCall
    /\ wrote = {}
    /\ nops = 0
    /\ flow = [r \in Runs |-> IdleFlow]
    /\ portBusyElsewhere \in BOOLEAN
    /\ AppIdle

NextFlow ==
    \/ \E r \in Runs : Authorize(r)
    \/ \E r \in Runs : StartServer(r)
    \/ \E r \in Runs : BindError(r)
    \/ \E r \in Runs, req \in Requests : HandleRequest(r, req)
    \/ \E r \in Runs, resp \in TokenResponses : ExchangeReturn(r, resp)
    \/ \E r \in Runs : TimerFire(r)
    \/ OtherProgram

SpecFlow == InitFlow /\ [][NextFlow]_vars

\* The event loop runs every callback that is due: the exec callback of
\* openBrowser (the child process ends), the emitted bind error, and the
\* timeout once its window has elapsed.  Requests and the token endpoint's
\* answer depend on the outside world and get no fairness.
FairFlow ==
    \A r \in Runs :
        /\ WF_vars(StartServer(r))
        /\ WF_vars(BindError(r))
        /\ WF_vars(TimerFire(r))

FairSpecFlow == InitFlow /\ [][NextFlow]_vars /\ FairFlow

\* ------------------------------------------------------------------------
\* Claims about the account store
\* ------------------------------------------------------------------------
OpenStores == {i \in Stores : stores[i].state = "open"}

EmailOf(account) == Prop(account, "email").v

EmailsOf(m) == {m[k].key : k \in 1..Len(m)}

\* C1: AddAccount(A) followed by GetAccount(A.email) returns a record equal
\* to A, whatever the store held before (an existing record with the same
\* email is replaced, not kept).
C1_AddThenGetReturnsAdded ==
    last.op = "addAccount" =>
        getAccount(stores[last.store].accounts, EmailOf(last.arg)) = last.arg

\* an add over an existing record with other tokens has just happened
C1_Witness ==
    /\ last.op = "addAccount"
    /\ last.had
    /\ last.arg = Acct("a@x.com", "r2", JStr("at"))
    /\ getAccount(stores[last.store].accounts, "a@x.com") = last.arg

\* C2: the length of GetAllAccounts() equals the number of distinct emails
\* present: no two returned records share an email, and re-adding an
\* existing email does not change the count.
C2_LengthIsDistinctEmails ==
    /\ \A i \in OpenStores :
          LET all == getAllAccounts(stores[i].accounts) IN
          /\ Len(all) = Cardinality({EmailOf(all[k]) : k \in 1..Len(all)})
          /\ Len(all) = Cardinality(EmailsOf(stores[i].accounts))
          /\ \A k \in 1..Len(all) : hasAccount(stores[i].accounts, EmailOf(all[k]))
    /\ (last.op = "addAccount" /\ last.had) =>
          Len(getAllAccounts(stores[last.store].accounts)) = last.sizeBefore

\* an email was re-added to a store holding two records
C2_Witness ==
    /\ last.op = "addAccount"
    /\ last.had
    /\ last.sizeBefore = 2
    /\ Len(getAllAccounts(stores[last.store].accounts)) = 2

\* the collection a fresh store over the directory would expose
FreshAccounts == loadAccounts(accountsFile, <<>>).accounts

\* same emails, and for each email equal records
SameCollection(m1, m2) ==
    /\ EmailsOf(m1) = EmailsOf(m2)
    /\ Len(m1) = Len(m2)
    /\ \A e \in EmailsOf(m1) : DeepEqual(MapGet(m1, e), MapGet(m2, e))

\* C3: when a single store instance has mutated the collection, a fresh
\* store over the same directory exposes the same collection as that
\* instance, and after every mutation the accounts file holds the whole
\* in-memory collection.
C3_ReopenReproducesCollection ==
    /\ \A i \in OpenStores :
          wrote = {i} =>
              /\ SameCollection(FreshAccounts, stores[i].accounts)
              /\ \A j \in OpenStores :
                    (last.op = "construct" /\ last.store = j) =>
                        SameCollection(stores[j].accounts, stores[i].accounts)
    /\ (last.op = "addAccount" \/ (last.op = "deleteAccount" /\ last.result.v)) =>
          /\ accountsFile.exists /\ accountsFile.parses
          /\ IsArray(accountsFile.json)
          /\ Len(accountsFile.json.v) = Len(stores[last.store].accounts)
          /\ \A k \in 1..Len(accountsFile.json.v) :
                DeepEqual(accountsFile.json.v[k], stores[last.store].accounts[k].value)

\* a second instance was constructed after the first one's mutations; the
\* first holds a record whose accessToken property is undefined, which the
\* file does not carry
C3_Witness ==
    /\ wrote = {1}
    /\ stores[1].state = "open"
    /\ stores[2].state = "open"
    /\ last.op = "construct" /\ last.store = 2
    /\ Len(stores[2].accounts) = 2
    /\ getAccount(stores[1].accounts, "b@x.com") = Acct("b@x.com", "r1", JUndef)
    /\ getAccount(stores[2].accounts, "b@x.com") = AcctNoAT("b@x.com", "r1")

\* the Account Record invariant as the specification words it: every
\* required field a non-empty string
IsNonEmptyString(x) == x.t = "string" /\ x.v # ""

ValidPerSpec(entry) ==
    /\ entry.t = "object"
    /\ IsNonEmptyString(Prop(entry, "email"))
    /\ Prop(entry, "oauth2").t = "object"
    /\ IsNonEmptyString(Prop(Prop(entry, "oauth2"), "clientId"))
    /\ IsNonEmptyString(Prop(Prop(entry, "oauth2"), "clientSecret"))
    /\ IsNonEmptyString(Prop(Prop(entry, "oauth2"), "refreshToken"))

\* C4: on load an entry of the accounts file is kept if and only if it is a
\* valid Account Record (email and the three oauth2 fields non-empty
\* strings); every other entry is dropped and the valid ones still load.
C4_KeptIffValid ==
    \A i \in OpenStores :
        (accountsFile.exists /\ accountsFile.parses /\ IsArray(accountsFile.json)) =>
            LET data == accountsFile.json.v
                kept == {stores[i].accounts[k].value : k \in 1..Len(stores[i].accounts)}
            IN  /\ \A e \in kept : ValidPerSpec(e)
                /\ \A k \in 1..Len(data) :
                      ValidPerSpec(data[k]) =>
                          \E e \in kept : EmailOf(e) = EmailOf(data[k])

\* C5: constructing a store over a directory whose accounts file is missing,
\* unparseable or has a non-array root raises no error and yields an empty
\* collection; the only construction failure is an uncreatable directory.
C5_LoadNeverFails ==
    /\ \A i \in Stores :
          /\ stores[i].state = "failed" => configDir = "blocked"
          /\ (stores[i].state = "open"
              /\ (~accountsFile.exists \/ ~accountsFile.parses
                  \/ ~IsArray(accountsFile.json)))
             => stores[i].accounts = <<>>
    /\ (last.op = "construct" /\ configDir # "blocked") =>
          /\ ~last.threw
          /\ stores[last.store].state = "open"

\* a store was opened over a directory whose accounts file is not JSON
C5_Witness ==
    /\ last.op = "construct"
    /\ stores[last.store].state = "open"
    /\ accountsFile = GarbageFile
    /\ stores[last.store].accounts = <<>>

\* ------------------------------------------------------------------------
\* Claims about the interactive authorization run
\* ------------------------------------------------------------------------
Settled(r) == flow[r].outcome.status # "pending"

\* C6: a run never succeeds without a refresh token: an exchange whose
\* response has no refresh token fails with a message containing "No refresh
\* token received" (also when an access token is present), and an exchange
\* with both tokens returns exactly {refreshToken, accessToken} as received.
C6_NoSuccessWithoutRefreshToken ==
    \A r \in Runs :
        /\ flow[r].outcome.kind = "success" =>
              /\ Truthy(flow[r].tokens.refresh_token)
              /\ Prop(flow[r].outcome.value, "refreshToken") = flow[r].tokens.refresh_token
              /\ Prop(flow[r].outcome.value, "accessToken")
                    = OrUndefined(flow[r].tokens.access_token)
        /\ (flow[r].exchange = "returned" /\ ~flow[r].tokens.rejected
            /\ flow[r].tokens.refresh_token \in {JUndef, JNull}) =>
              /\ flow[r].result.threw
              /\ \E rest \in {". Try revoking app access and re-authorizing."} :
                    flow[r].result.message = "No refresh token received" \o rest
              /\ flow[r].outcome.status = "rejected"
        /\ (flow[r].exchange = "returned" /\ ~flow[r].tokens.rejected
            /\ Truthy(flow[r].tokens.refresh_token)
            /\ Truthy(flow[r].tokens.access_token)) =>
              /\ ~flow[r].result.threw
              /\ flow[r].result.value
                    = JObj([refreshToken |-> flow[r].tokens.refresh_token,
                            accessToken |-> flow[r].tokens.access_token])

\* the provider answered with an access token and no refresh token, and the
\* run failed with the exchange's error
C6_Witness ==
    /\ flow[1].exchange = "returned"
    /\ flow[1].tokens.refresh_token = JUndef
    /\ flow[1].tokens.access_token = JStr("access-token")
    /\ flow[1].outcome = Rejected("exchange", NoRefreshToken)

\* C7: whenever an interactive run has settled (success, denial, bind
\* failure, exchange failure or timeout) its listener is not listening.
C7_SettledMeansNotListening ==
    \A r \in Runs : Settled(r) => flow[r].server # "listening"

\* one run ended in a denial and a later one on the same port succeeded
C7_Witness ==
    /\ flow[1].outcome.kind = "denial"
    /\ flow[1].server = "closed"
    /\ flow[2].outcome.kind = "success"
    /\ flow[2].server = "closed"

OutcomeKinds == {"success", "denial", "bind", "exchange", "timeout"}

NeitherCodeNorError(req) == ~Truthy(req.code) /\ ~Truthy(req.error)

BindFailure == Rejected("bind", "Failed to start local server: " \o "listen EADDRINUSE")

\* C20: of the interactive runs using the one redirect port at most one is
\* listening at any time, and a run whose bind failed has ended with the
\* "Failed to start local server" failure once the bind error was raised,
\* without any token exchange and whether or not its timeout has elapsed.
C20_OneListenerAndBindFailureIsImmediate ==
    /\ Cardinality({r \in Runs : flow[r].server = "listening"}) <= 1
    /\ \A r \in Runs :
          flow[r].server = "failed" =>
             /\ flow[r].outcome = BindFailure
             /\ flow[r].nExchanges = 0
             /\ flow[r].exchange = "none"
             /\ flow[r].nRequests = 0

\* run 1 is listening; run 2 has failed to bind and is settled while its
\* timer is still armed
C20_Witness ==
    /\ flow[1].server = "listening"
    /\ flow[2].server = "failed"
    /\ flow[2].outcome = BindFailure
    /\ flow[2].timer = "armed"
    /\ ~portBusyElsewhere

\* C16: DeleteAccount(email) returns true exactly when a record for email
\* was present, and afterwards none is present; for an unknown email it
\* returns false, raises no error and leaves the in-memory collection and
\* the accounts file unchanged; records of other emails are never affected.
C16_DeleteRemovesOnlyThatEmail ==
    [][(last'.op = "deleteAccount" /\ nops' = nops + 1) =>
         LET i == last'.store
             email == last'.arg.v
             before == stores[i].accounts
             after == stores'[i].accounts
         IN  /\ ~last'.threw
             /\ last'.result = JBool(hasAccount(before, email))
             /\ ~hasAccount(after, email)
             /\ \A other \in (EmailsOf(before) \cup EmailsOf(after)) \ {email} :
                    getAccount(after, other) = getAccount(before, other)
             /\ \A j \in Stores \ {i} : stores'[j] = stores[j]
             /\ IF hasAccount(before, email)
                THEN ~hasAccount(loadAccounts(accountsFile', <<>>).accounts, email)
                ELSE /\ after = before
                     /\ accountsFile' = accountsFile]_vars

\* an unknown email was deleted from a store holding another record: false
\* is returned and the record and the file are still there
C16_Witness ==
    /\ last.op = "deleteAccount"
    /\ last.result = JBool(FALSE)
    /\ ~last.threw
    /\ last.sizeBefore = 1
    /\ Len(stores[last.store].accounts) = 1
    /\ accountsFile.exists

\* ------------------------------------------------------------------------
\* Claims about the client credentials
\* ------------------------------------------------------------------------
Lacks(data, k) == Prop(data, k).t = "undefined"

\* C17: GetCredentials never throws and returns exactly the pair given to
\* the most recent SetCredentials, by whichever store over the directory;
\* it returns absent when the credentials file does not exist, does not
\* parse, or lacks clientId or clientSecret.
C17_GetReturnsLastSetPair ==
    last.op = "getCredentials" =>
        /\ ~last.threw
        /\ credsSet.set =>
             last.result = JObj([clientId |-> credsSet.clientId,
                                 clientSecret |-> credsSet.clientSecret])
        /\ (\/ ~credentialsFile.exists
            \/ ~credentialsFile.parses
            \/ Lacks(credentialsFile.json, "clientId")
            \/ Lacks(credentialsFile.json, "clientSecret")) => last.result = JNull

\* a store reads the pair another store set over an earlier, different pair
C17_Witness ==
    /\ last.op = "getCredentials"
    /\ nops >= 2
    /\ credsSet.set
    /\ credsSet.by # last.store
    /\ last.result = JObj([clientId |-> JStr("other-client-id"),
                           clientSecret |-> JStr("other-client-secret")])

\* ------------------------------------------------------------------------
\* Claims about extractCodeFromUrl
\* ------------------------------------------------------------------------
\* C13 as stated: extractCodeFromUrl fails only when the redirect string
\* contains no "code=" at all; every input containing "code=" yields a code.
C13_FailsOnlyWithoutCodeEquals ==
    (extract.done /\ Includes(extract.url, CodeEquals)) => ~extract.result.threw

\* "code=" followed by a character other than "&"
ValueFollows(url, p) ==
    /\ OccursAt(url, CodeEquals, p)
    /\ p + Len(CodeEquals) <= Len(url)
    /\ url[p + Len(CodeEquals)] # "&"

\* the characters after the leftmost such "code=" up to the next "&"
ScannedValue(url) ==
    LET p == CHOOSE x \in 1..Len(url) :
                 ValueFollows(url, x) /\ \A y \in 1..(x - 1) : ~ValueFollows(url, y)
        from == p + Len(CodeEquals)
    IN SubSeq(url, from, IndexFrom(url, "&", from) - 1)

HasParsedCode(url) ==
    /\ ParsesAsURL(url)
    /\ \E k \in NamedCode(ParamsOf(QueryOf(url))) :
          /\ ParamsOf(QueryOf(url))[k].value # <<>>
          /\ \A j \in NamedCode(ParamsOf(QueryOf(url))) : k <= j

\* C13 amended: extractCodeFromUrl returns a code exactly when the string
\* is an absolute URL whose code parameter is non-empty, or contains a
\* "code=" followed by a character other than "&" and the value scanned
\* there is well-formed percent-encoding; it fails otherwise, in particular
\* for a string whose every "code=" has an empty value.
C13_FailsUnlessCodeHasValue ==
    extract.done =>
        (~extract.result.threw <=>
            \/ HasParsedCode(extract.url)
            \/ /\ \E p \in 1..Len(extract.url) : ValueFollows(extract.url, p)
               /\ ~PercentDecode(ScannedValue(extract.url), 1).malformed)

\* "nourl?code=" contains "code=" and is rejected as an invalid redirect
C13_Witness ==
    /\ extract.done
    /\ extract.url = NotAUrl \o <<"?">> \o CodeEquals
    /\ extract.result = Thrown("Invalid redirect URL")

\* the first query parameter named code, when its value is not empty
CodeParams(url) ==
    LET params == ParamsOf(QueryOf(url)) IN
    {k \in NamedCode(params) :
        params[k].raw # <<>> /\ \A j \in NamedCode(params) : k <= j}

\* C14: for every redirect string that has a query parameter named code
\* with a non-empty value, extractCodeFromUrl returns the percent-decoded
\* value of that parameter, whether the string is an absolute URL or not.
C14_ReturnsDecodedCodeParameter ==
    extract.done =>
        \A k \in CodeParams(extract.url) :
            extract.result = Returned(ParamsOf(QueryOf(extract.url))[k].value)

\* ------------------------------------------------------------------------
\* Claims about the command line
\* ------------------------------------------------------------------------
\* C15: accounts add <email> for an email that already has a stored record
\* is rejected before any authorization step: no credentials are read, no
\* listener is started, no exchange is made, and the stored record of that
\* email is left unchanged.
C15_DuplicateAddRejectedBeforeFlow ==
    (cli.pc # "idle" /\ cli.had) =>
        /\ cli.pc = "exited"
        /\ cli.code = 1
        /\ cli.message = "Account '" \o cli.email \o "' already exists"
        /\ cli.credsRead = 0
        /\ flow[CliRun].pc = "idle"
        /\ flow[CliRun].nListens = 0
        /\ flow[CliRun].nExchanges = 0
        /\ getAccount(stores[CliStore].accounts, cli.email) = cli.before
        /\ accountsFile = cli.fileBefore

\* the add of a stored email was rejected although usable credentials are
\* configured
C15_Witness ==
    /\ cli.pc = "exited"
    /\ cli.had
    /\ cli.email = "a@x.com"
    /\ cli.before # JUndef
    /\ getCredentials(credentialsFile).value # JNull
    /\ accountsFile.exists

\* ------------------------------------------------------------------------
\* Claims about the services
\* ------------------------------------------------------------------------
ServiceOperations == {"getOAuth2Client", "list"}

NotFound(email) == "Account '" \o email \o "' not found"

\* the call failed as "not found", left both caches as they were and sent
\* no remote request
FailedAsNotFound(call) ==
    /\ call.threw
    /\ call.message = NotFound(call.arg.v)
    /\ service.clients = call.clientsBefore
    /\ service.tasksClients = call.tasksClientsBefore
    /\ service.remote = call.remoteBefore

\* C18 as stated: a service operation requested for an email that has no
\* stored record at the time of the call fails with "Account '<email>' not
\* found", creates no cache entry and sends no remote request.
C18_NoRecordMeansNotFound ==
    (service.last.op \in ServiceOperations /\ ~service.last.hadRecord) =>
        FailedAsNotFound(service.last)

\* the call found a client for the email in the cache it consults first
ServedFromCache(call) ==
    \/ MapHas(call.clientsBefore, call.arg.v)
    \/ call.op = "list" /\ MapHas(call.tasksClientsBefore, call.arg.v)

\* C18 amended: a service operation requested for an email that has no
\* stored record and no cached client at the time of the call fails with
\* "Account '<email>' not found", creates no cache entry and sends no remote
\* request; an email whose client is still cached is served from the cache
\* without consulting the store.
C18_NoRecordNoCachedClientMeansNotFound ==
    (service.last.op \in ServiceOperations /\ ~service.last.hadRecord) =>
        IF ServedFromCache(service.last)
        THEN ~service.last.threw
        ELSE FailedAsNotFound(service.last)

\* an operation for an email unknown to the store and to the caches failed
\* while another email's client stayed cached
C18_Witness ==
    /\ service.last.op = "list"
    /\ service.last.arg = JStr("b@x.com")
    /\ ~service.last.hadRecord
    /\ service.last.threw
    /\ service.last.message = "Account 'b@x.com' not found"
    /\ MapHas(service.clients, "a@x.com")
    /\ service.remote = 1

\* C19: the client cache has no implicit expiry: between invalidations
\* getOAuth2Client(email) returns the same instance on every call;
\* clearClientCache(email) removes only that email's entry;
\* clearClientCache() removes all entries; after a removal the next request
\* builds a new instance.
C19_CacheChangesOnlyByInvalidation ==
    LET call == service.last
        cached == MapHas(call.clientsBefore, call.arg.v) IN
    /\ (call.op = "getOAuth2Client" /\ cached) =>
          /\ ~call.threw
          /\ call.result = MapGet(call.clientsBefore, call.arg.v)
          /\ service.clients = call.clientsBefore
          /\ service.built = call.builtBefore
    /\ (call.op = "getOAuth2Client" /\ ~cached /\ call.hadRecord) =>
          /\ ~call.threw
          /\ service.built = call.builtBefore + 1
          /\ Prop(call.result, "id") = JNum(service.built)
          /\ MapGet(service.clients, call.arg.v) = call.result
    /\ (call.op \in {"getOAuth2Client", "list"}) =>
          \A e \in EmailsOf(call.clientsBefore) :
              MapGet(service.clients, e) = MapGet(call.clientsBefore, e)
    /\ (call.op \in {"clearClientCache", "clearTasksClientCache"}
            /\ call.arg # JUndef) =>
          /\ ~MapHas(service.clients, call.arg.v)
          /\ \A e \in EmailsOf(call.clientsBefore) \ {call.arg.v} :
                MapGet(service.clients, e) = MapGet(call.clientsBefore, e)
    /\ (call.op \in {"clearClientCache", "clearTasksClientCache"}
            /\ call.arg = JUndef) =>
          service.clients = <<>>

\* one email's entry was removed while the other's stayed, and the next
\* request for the removed email built a third instance
C19_Witness ==
    /\ service.last.op = "getOAuth2Client"
    /\ service.last.arg = JStr("a@x.com")
    /\ ~MapHas(service.last.clientsBefore, "a@x.com")
    /\ MapHas(service.last.clientsBefore, "b@x.com")
    /\ service.built = 3
    /\ Prop(service.last.result, "id") = JNum(3)
    /\ Prop(MapGet(service.clients, "b@x.com"), "id") = JNum(2)

\* ------------------------------------------------------------------------
\* Claims about stores sharing a directory, and about reads
\* ------------------------------------------------------------------------
LastCallWrote ==
    \/ last.op = "addAccount"
    \/ last.op = "deleteAccount" /\ last.result = JBool(TRUE)

\* C21: with two store instances over the same directory, after a mutation
\* the accounts file holds the in-memory collection of the instance that
\* wrote last and nothing else: a record that only the other instance holds
\* is absent from the file (the two collections are never merged).
C21_LastWriterWins ==
    LastCallWrote =>
        /\ SameCollection(FreshAccounts, stores[last.store].accounts)
        /\ \A j \in OpenStores \ {last.store} :
              \A e \in EmailsOf(stores[j].accounts)
                          \ EmailsOf(stores[last.store].accounts) :
                  ~hasAccount(FreshAccounts, e)

\* lost update: store 1 added a@x.com, then store 2, which had loaded an
\* empty collection, added b@x.com; the file no longer has a@x.com
C21_Witness ==
    /\ nops = 2
    /\ wrote = {1, 2}
    /\ last.op = "addAccount" /\ last.store = 2
    /\ last.sizeBefore = 0
    /\ stores[1].state = "open"
    /\ hasAccount(stores[1].accounts, "a@x.com")
    /\ ~hasAccount(FreshAccounts, "a@x.com")
    /\ hasAccount(FreshAccounts, "b@x.com")

\* C24: when the accounts file contains several valid entries with the same
\* email, the loaded collection holds exactly one record for that email and
\* it equals the last such entry of the file.
C24_LastDuplicateWins ==
    \A i \in OpenStores :
        (accountsFile.exists /\ accountsFile.parses /\ IsArray(accountsFile.json)) =>
            LET data == accountsFile.json.v
                valid == {k \in 1..Len(data) : isValidAccount(data[k])}
                accounts == stores[i].accounts
            IN  \A k \in valid :
                    LET same == {j \in valid : EmailOf(data[j]) = EmailOf(data[k])}
                        final == CHOOSE j \in same : \A n \in same : n <= j
                    IN  /\ Cardinality({n \in 1..Len(accounts) :
                                           accounts[n].key = EmailOf(data[k])}) = 1
                        /\ getAccount(accounts, EmailOf(data[k])) = data[final]

\* a file with two entries for a@x.com was loaded: the second one is held
C24_Witness ==
    /\ accountsFile = TextFile(JArr(<<AcctNoAT("a@x.com", "r1"), AcctNoAT("a@x.com", "r2")>>))
    /\ stores[1].state = "open"
    /\ Len(stores[1].accounts) = 1
    /\ getAccount(stores[1].accounts, "a@x.com") = AcctNoAT("a@x.com", "r2")

ReadOperations ==
    {"construct", "getAccount", "getAllAccounts", "hasAccount", "getCredentials"}

\* C30: constructing a store and the read operations never write the
\* accounts file or the credentials file, so dropped entries and a corrupt
\* file stay on disk; the next AddAccount, or DeleteAccount that removes a
\* record, replaces the accounts file with the in-memory collection only.
C30_ReadsNeverWrite ==
    [][/\ last'.op \in ReadOperations =>
             /\ accountsFile' = accountsFile
             /\ credentialsFile' = credentialsFile
       /\ (nops' = nops + 1 /\ (\/ last'.op = "addAccount"
                                \/ last'.op = "deleteAccount" /\ last'.result = JBool(TRUE))) =>
             /\ accountsFile'.exists /\ accountsFile'.parses
             /\ IsArray(accountsFile'.json)
             /\ Len(accountsFile'.json.v) = Len(stores'[last'.store].accounts)
             /\ \A k \in 1..Len(accountsFile'.json.v) :
                   /\ isValidAccount(accountsFile'.json.v[k])
                   /\ DeepEqual(accountsFile'.json.v[k],
                                getAccount(stores'[last'.store].accounts,
                                           EmailOf(accountsFile'.json.v[k])))
             /\ credentialsFile' = credentialsFile]_vars

\* a store was opened over a file with two entries it dropped and was then
\* read: the three entries are still on disk
C30_Witness ==
    /\ last.op = "getAllAccounts"
    /\ Len(last.result.v) = 1
    /\ accountsFile.exists /\ accountsFile.parses
    /\ Len(accountsFile.json.v) = 3
    /\ \E k \in 1..3 : ~isValidAccount(accountsFile.json.v[k])
    /\ credentialsFile = GarbageFile

\* ------------------------------------------------------------------------
\* Claims about the timeout of the interactive run
\* ------------------------------------------------------------------------
\* C26: once the listener has received a request carrying a code, the run
\* never ends with the timeout failure: its outcome is decided by the token
\* exchange alone, also when the exchange is in flight as the window elapses.
C26_NoTimeoutAfterCode ==
    \A r \in Runs : flow[r].nExchanges > 0 => flow[r].outcome.kind # "timeout"

\* C27: when a run has settled before the timeout window elapsed (success,
\* denial, exchange failure or bind failure) nothing owned by the run
\* remains pending: its timer is no longer armed and its listener is not
\* listening.
C27_NothingPendingAfterSettle ==
    \A r \in Runs :
        (Settled(r) /\ flow[r].outcome.kind # "timeout") =>
            /\ flow[r].timer # "armed"
            /\ flow[r].server # "listening"

\* C29: for a redirect string that parses as an absolute URL and has no
\* query parameter named code, extractCodeFromUrl fails; it returns no value
\* taken from another parameter or another part of the URL.
C29_UrlWithoutCodeParameterFails ==
    (/\ extract.done
     /\ ParsesAsURL(extract.url)
     /\ NamedCode(ParamsOf(QueryOf(extract.url))) = {}) => extract.result.threw

\* ------------------------------------------------------------------------
\* Claims about accounts add and the application credentials
\* ------------------------------------------------------------------------
NoCredentialsInstruction ==
    "No credentials configured. " \o "Run: gtcli accounts credentials <credentials.json>"

\* the command ended with msg and a non-zero status, no authorization run
\* was constructed or started, and the collection and the accounts file are
\* as they were
RejectedBeforeFlow(msg) ==
    /\ cli.pc = "exited"
    /\ cli.code # 0
    /\ cli.message = msg
    /\ flow[CliRun] = IdleFlow
    /\ stores[CliStore].accounts = loadAccounts(cli.fileBefore, <<>>).accounts
    /\ accountsFile = cli.fileBefore
    /\ wrote = {}

\* C23 as stated: accounts add <email> with no application credentials
\* stored fails with the instruction "No credentials configured..." and a
\* non-zero exit status before any authorization flow is constructed or
\* started, leaving the account collection unchanged.
C23_NoCredentialsRejected ==
    (cli.pc # "idle" /\ getCredentials(credentialsFile).value = JNull) =>
        RejectedBeforeFlow(NoCredentialsInstruction)

\* C23 amended: accounts add <email> for an email without a stored record,
\* with no application credentials stored, fails with the instruction "No
\* credentials configured..." and a non-zero exit status before any flow is
\* constructed or started, leaving the collection unchanged; for an email
\* that has a stored record the duplicate rejection comes first.
C23_NoCredentialsRejectedUnlessDuplicate ==
    (cli.pc # "idle" /\ getCredentials(credentialsFile).value = JNull) =>
        IF cli.had
        THEN RejectedBeforeFlow("Account '" \o cli.email \o "' already exists")
        ELSE RejectedBeforeFlow(NoCredentialsInstruction) /\ cli.credsRead = 1

\* a new email was given while credentials.json lacks a field
C23_Witness ==
    /\ cli.pc = "exited"
    /\ ~cli.had
    /\ cli.credsRead = 1
    /\ cli.creds = JNull
    /\ cli.message = NoCredentialsInstruction
    /\ credentialsFile.exists /\ credentialsFile.parses
    /\ Len(stores[CliStore].accounts) = 1

\* ---------------------------------------------------------------------
\* C22: a manual-mode run starts no listener and no timer, never ends
\* with the timeout failure, and is settled only once one line was read
\* from the terminal; its outcome is then the error thrown by the code
\* extraction, made without any token exchange, or else the result of the
\* single token exchange made with the extracted code.
ManualRun(r) == flow[r].pc \in {"asking", "read"}

C22_ManualRunOutcome ==
    \A r \in Runs : ManualRun(r) =>
        LET f == flow[r] IN
        /\ f.server = "none" /\ f.nListens = 0
        /\ f.timer = "none"
        /\ f.outcome.kind # "timeout"
        /\ f.nExchanges <= 1
        /\ f.nLines <= 1
        /\ Settled(r) =>
             /\ f.nLines = 1
             /\ IF f.extracted.threw
                THEN /\ f.nExchanges = 0
                     /\ f.outcome = Rejected("extract", f.extracted.error)
                ELSE /\ f.nExchanges = 1
                     /\ f.exchange = "returned"
                     /\ f.result = exchangeCode(f.tokens)
                     /\ f.outcome = IF f.result.threw
                                    THEN Rejected("exchange", f.result.message)
                                    ELSE Fulfilled(f.result.value)

C22_Witness ==
    /\ ManualRun(1) /\ ManualRun(2)
    /\ flow[1].outcome.status = "fulfilled"
    /\ flow[2].outcome.status = "rejected" /\ flow[2].extracted.threw

\* ---------------------------------------------------------------------
\* C28: accounts add writes a record only after the authorization run
\* returned a token pair: the store was written only when the command
\* ended well, the run having been fulfilled with the refresh token now
\* stored under the email; until then, and when the command exits on a
\* failure of the run (bind failure, denial, invalid redirect, missing
\* refresh token, exchange error, timeout), the collection and the accounts
\* file are exactly what they were when the command started.
FailureKinds == {"bind", "denial", "extract", "exchange", "timeout"}

C28_WritesOnlyAfterTokens ==
    cli.pc # "idle" =>
        /\ cli.pc # "done" =>
             /\ stores[CliStore].accounts = loadAccounts(cli.fileBefore, <<>>).accounts
             /\ accountsFile = cli.fileBefore
             /\ wrote = {}
        /\ (cli.pc = "exited" /\ flow[CliRun].pc # "idle") =>
             /\ flow[CliRun].outcome.status = "rejected"
             /\ flow[CliRun].outcome.kind \in FailureKinds
             /\ cli.code = 1
        /\ cli.pc = "done" =>
             /\ flow[CliRun].outcome.status = "fulfilled"
             /\ Truthy(Prop(flow[CliRun].outcome.value, "refreshToken"))
             /\ Prop(Prop(getAccount(stores[CliStore].accounts, cli.email), "oauth2"),
                     "refreshToken")
                  = Prop(flow[CliRun].outcome.value, "refreshToken")
             /\ accountsFile = saveAccounts(stores[CliStore].accounts)

\* the run failed for want of a refresh token while the store held records:
\* the command exited and the file is the one it started with
C28_Witness ==
    /\ cli.pc = "exited"
    /\ flow[CliRun].outcome.message = NoRefreshToken
    /\ cli.fileBefore.exists
    /\ stores[CliStore].accounts # <<>>
    /\ accountsFile = cli.fileBefore

\* ---------------------------------------------------------------------
\* C25: update reads the task before it writes and sends one update in
\* which each of title, notes, due and status is the option when one was
\* given and the value of the task just read otherwise; complete and
\* uncomplete send the status completed / needsAction and the title, notes
\* and due of the task just read.
UpdatedFields == {"title", "notes", "due", "status"}

C25_UpdateMergesOptionsOverRead ==
    LET t == service.task IN
    /\ t.updates <= t.gets /\ t.gets <= 1
    /\ t.pc \in {"idle", "getting"} => t.updates = 0
    /\ t.updates = 1 =>
         /\ t.currentTask = mapTask(t.data)
         /\ \A k \in UpdatedFields :
              /\ Prop(t.requestBody, k) =
                    IF Prop(t.options, k) # JUndef THEN Prop(t.options, k)
                    ELSE Prop(t.currentTask, k)
              /\ Prop(t.data, k) # JNull => Prop(t.currentTask, k) = Prop(t.data, k)
         /\ t.op \in {"complete", "uncomplete"} =>
              /\ Prop(t.requestBody, "status") =
                    JStr(IF t.op = "complete" THEN "completed" ELSE "needsAction")
              /\ \A k \in UpdatedFields \ {"status"} :
                    Prop(t.requestBody, k) = Prop(t.currentTask, k)

\* an update that gave an empty title and no notes for a task that has
\* both was sent: the title is the empty one, the notes are the ones read
C25_Witness ==
    /\ service.task.pc = "done"
    /\ service.task.op = "update"
    /\ Prop(service.task.options, "title") = JStr("")
    /\ Prop(service.task.options, "notes") = JUndef
    /\ Prop(service.task.data, "title") = JStr("Old Title")
    /\ Prop(service.task.requestBody, "title") = JStr("")
    /\ Prop(service.task.requestBody, "notes") = JStr("Old notes")

====
